---- MODULE Spec2Model ----
(***************************************************************************)
(* Model of unraid_mqtt_stats: the sensor entity and its merge             *)
(* (src/src/config.rs), the built-in catalog, the override engine and the  *)
(* two publishing passes (src/src/unraid_stats.rs).                        *)
(*                                                                         *)
(* Text is modelled as a sequence of tokens: "_", "*" and "/" are tokens   *)
(* of their own, every other token is a run of characters holding none of  *)
(* them.  "dockercontainer_web_cpu" is                                     *)
(* <<"dockercontainer", "_", "web", "_", "cpu">>.  Option<T> is modelled   *)
(* as a sequence of length at most one: None is <<>>, Some(v) is <<v>>.    *)
(***************************************************************************)
EXTENDS Naturals, Sequences, FiniteSets, TLC

VARIABLES
    prior,          \* merge harness: the sensor before the last merge call
    other,          \* merge harness: the patch of the last merge call, as Option
    self,           \* merge harness: the sensor merge mutates
    merges,         \* merge harness: the number of merge calls so far
    engine,         \* what the container engine answers to the running-containers query
    sensor_config,  \* UnraidStats::sensor_config, Option<Config>
    built,          \* Option of the outcome of one call of UnraidStats::sensors
    json_output,    \* UnraidStats::json_output
    skip_discovery, \* UnraidStats::skip_discovery
    client,         \* whether the caller of a pass hands it a client
    pc,             \* where the run is
    pass_list,      \* the sensors the running pass iterates over
    idx,            \* the position of the running pass in `pass_list`
    stats_stash,    \* the stats_stash cells of the list: cell -> Option<sample>
    transport,      \* the messages the client accepted, in order
    rejected,       \* the messages the client rejected, in order
    stdout,         \* the records printed, in order
    invoked,        \* the sensors whose reporter ran get_value, in order
    no_values,      \* the number of external sources that failed so far
    rep_source,     \* Option of the reporter of one get_value call on its own
    rep_reply,      \* Option of what the external source answered in that call
    rep_got,        \* Option of the outcome of that call
    dump,           \* Option of the file dump_sensors_toml wrote
    reloaded,       \* Option of the outcome of UnraidStats::sensors over that file
    task,           \* concurrent get_value calls on one stash: reporter -> its progress
    queries         \* the number of stats queries those calls opened

vars == <<prior, other, self, merges, engine, sensor_config, built,
          json_output, skip_discovery, client, pc, pass_list, idx, stats_stash,
          transport, rejected, stdout, invoked, no_values,
          rep_source, rep_reply, rep_got, dump, reloaded, task, queries>>

reporterVars == <<rep_source, rep_reply, rep_got>>
dumpVars == <<dump, reloaded>>
taskVars == <<task, queries>>

mergeVars == <<prior, other, self, merges>>
engineVars == <<engine, sensor_config, built>>
flagVars == <<json_output, skip_discovery, client>>
passVars ==
    <<pc, pass_list, idx, stats_stash, transport, rejected, stdout, invoked,
      no_values>>

(***************************************************************************)
(* Option and text helpers                                                 *)
(***************************************************************************)
None == <<>>

Some(v) == <<v>>

is_some(o) == o # None

unwrap_or(o, d) == IF o = None THEN d ELSE o[1]

\* The position of the first "_" token at or after position i, 0 if there is none.
RECURSIVE find_underscore(_, _)
find_underscore(s, i) ==
    IF i > Len(s) THEN 0
    ELSE IF s[i] = "_" THEN i
    ELSE find_underscore(s, i + 1)

\* str::split('_'): the segments between underscores; a text without any
\* underscore (the empty text included) is one segment.
RECURSIVE split(_)
split(s) ==
    LET i == find_underscore(s, 1)
    IN  IF i = 0 THEN <<s>>
        ELSE <<SubSeq(s, 1, i - 1)>> \o split(SubSeq(s, i + 1, Len(s)))

\* Iterator::nth(n) on the items an iterator still holds: the item handed out
\* and the items left once it and everything before it are consumed.
iter_nth(it, n) ==
    [item |-> IF Len(it) > n THEN Some(it[n + 1]) ELSE None,
     rest |-> SubSeq(it, n + 2, Len(it))]

\* Iterator::last() on the items an iterator still holds.
iter_last(it) == IF it = <<>> THEN None ELSE Some(it[Len(it)])

\* str::contains(pat)
contains(s, pat) ==
    \E i \in 1..(Len(s) + 1) :
        /\ i + Len(pat) - 1 <= Len(s)
        /\ SubSeq(s, i, i + Len(pat) - 1) = pat

\* str::trim_start_matches('/')
RECURSIVE trim_start_matches(_, _)
trim_start_matches(s, c) ==
    IF s # <<>> /\ s[1] = c THEN trim_start_matches(Tail(s), c) ELSE s

STAR == <<"_", "*", "_">>

(***************************************************************************)
(* Sensor::merge                                                           *)
(***************************************************************************)
\* A bug that drops the id guard: every patch is applied.
merge_unguarded(s, o) ==
    [s EXCEPT !.name = IF is_some(o.name) THEN o.name[1] ELSE @,
              !.unit = IF is_some(o.unit) THEN o.unit ELSE @,
              !.device_class = IF is_some(o.device_class) THEN o.device_class ELSE @,
              !.icon = IF is_some(o.icon) THEN o.icon ELSE @,
              !.disabled = IF o.disabled THEN o.disabled ELSE @]

\* A bug that copies every field of the patch, absent ones and disabled = false
\* included.
merge_overwrite(s, o) ==
    IF s.id # o.id /\ ~contains(o.id, STAR) THEN s
    ELSE [s EXCEPT !.name = IF is_some(o.name) THEN o.name[1] ELSE @,
                   !.unit = o.unit,
                   !.device_class = o.device_class,
                   !.icon = o.icon,
                   !.disabled = o.disabled]

\* A bug that flips `disabled` whenever the patch disables.
merge_toggle(s, o) ==
    IF s.id # o.id /\ ~contains(o.id, STAR) THEN s
    ELSE [s EXCEPT !.name = IF is_some(o.name) THEN o.name[1] ELSE @,
                   !.unit = IF is_some(o.unit) THEN o.unit ELSE @,
                   !.device_class = IF is_some(o.device_class) THEN o.device_class ELSE @,
                   !.icon = IF is_some(o.icon) THEN o.icon ELSE @,
                   !.disabled = IF o.disabled THEN ~@ ELSE @]

merge(s, o) ==
    IF s.id # o.id /\ ~contains(o.id, STAR) THEN s
    ELSE [s EXCEPT !.name = IF is_some(o.name) THEN o.name[1] ELSE @,
                   !.unit = IF is_some(o.unit) THEN o.unit ELSE @,
                   !.device_class = IF is_some(o.device_class) THEN o.device_class ELSE @,
                   !.icon = IF is_some(o.icon) THEN o.icon ELSE @,
                   !.disabled = IF o.disabled THEN o.disabled ELSE @]

(***************************************************************************)
(* The built-in catalog                                                    *)
(***************************************************************************)
\* Args::device_name, default "unraid"
device_name == <<"unraid">>

\* Sensor::default(): what `..Default::default()` fills in
default_sensor ==
    [id |-> <<>>, name |-> <<>>, unit |-> None, device_class |-> None,
     icon |-> None, disabled |-> FALSE, reporter |-> None]

system_reporter(stat) == Some([kind |-> "System", name |-> stat])

command_reporter(command, args, transform) ==
    Some([kind |-> "Command", command |-> command, args |-> args,
          transform |-> transform])

docker_reporter(stat) == Some([kind |-> "Docker", stat |-> stat])

mnt_user == <<"/", "mnt", "/", "user">>

\* The vec! of host sensors at the head of UnraidStats::sensors
host_sensors ==
    << [default_sensor EXCEPT
            !.id = <<"cpu", "_", "usage">>, !.name = <<"CPU Usage">>,
            !.unit = Some(<<"%">>), !.reporter = system_reporter("CpuUsage")],
       [default_sensor EXCEPT
            !.id = <<"memory", "_", "usage">>, !.name = <<"Memory Usage">>,
            !.unit = Some(<<"%">>), !.reporter = system_reporter("MemoryUsage")],
       [default_sensor EXCEPT
            !.id = <<"memory", "_", "total">>, !.name = <<"Memory Total">>,
            !.unit = Some(<<"B">>), !.device_class = Some("DataSize"),
            !.icon = Some(<<"memory">>),
            !.reporter = system_reporter("MemoryTotal")],
       [default_sensor EXCEPT
            !.id = <<"memory", "_", "used">>, !.name = <<"Memory Used">>,
            !.unit = Some(<<"B">>), !.device_class = Some("DataSize"),
            !.icon = Some(<<"memory">>),
            !.reporter = system_reporter("MemoryUsed")],
       [default_sensor EXCEPT
            !.id = <<"disk", "_", "usage">>, !.name = <<"Disk Usage">>,
            !.unit = Some(<<"%">>),
            !.reporter = command_reporter(<<"df">>, Some(<< <<"-BM">>, mnt_user >>),
                                          "disk_usage_percent")],
       [default_sensor EXCEPT
            !.id = <<"disk", "_", "total">>, !.name = <<"Disk Total">>,
            !.unit = Some(<<"B">>), !.device_class = Some("DataSize"),
            !.icon = Some(<<"data", "_", "size">>),
            !.reporter = command_reporter(<<"df">>, Some(<< mnt_user >>),
                                          "disk_total")],
       [default_sensor EXCEPT
            !.id = <<"disk", "_", "available">>, !.name = <<"Disk Available">>,
            !.unit = Some(<<"B">>), !.device_class = Some("DataSize"),
            !.icon = Some(<<"data", "_", "size">>),
            !.reporter = command_reporter(<<"df">>, Some(<< mnt_user >>),
                                          "disk_available")],
       [default_sensor EXCEPT
            !.id = <<"cpu", "_", "temp">>, !.name = <<"CPU Temperature">>,
            !.unit = Some(<<"degC">>), !.device_class = Some("Temperature"),
            !.reporter = command_reporter(<<"sensor">>, None, "cpu_temp")],
       [default_sensor EXCEPT
            !.id = <<"uptime">>, !.name = <<"Uptime">>,
            !.icon = Some(<<"duration">>),
            !.reporter = system_reporter("Uptime")],
       [default_sensor EXCEPT
            !.id = <<"array", "_", "status">>, !.name = <<"Array Status">>,
            !.reporter = command_reporter(<<"mdcmd">>, Some(<< <<"status">> >>),
                                          "array_status")],
       [default_sensor EXCEPT
            !.id = <<"docker", "_", "containers", "_", "running">>,
            !.name = <<"Docker Containers Running">>,
            !.icon = Some(<<"docker">>),
            !.reporter = docker_reporter("RunningCount")],
       [default_sensor EXCEPT
            !.id = <<"docker", "_", "containers", "_", "unhealthy">>,
            !.name = <<"Docker Containers Unhealthy">>,
            !.icon = Some(<<"docker">>),
            !.reporter = docker_reporter("UnhealthyCount")],
       [default_sensor EXCEPT
            !.id = <<"docker", "_", "images", "_", "count">>,
            !.name = <<"Docker Images">>,
            !.icon = Some(<<"docker">>),
            !.reporter = docker_reporter("ImagesCount")],
       [default_sensor EXCEPT
            !.id = <<"docker", "_", "images", "_", "size">>,
            !.name = <<"Docker Images Size">>,
            !.icon = Some(<<"data", "_", "size">>),
            !.device_class = Some("DataSize"), !.unit = Some(<<"B">>),
            !.reporter = docker_reporter("ImagesSize")],
       [default_sensor EXCEPT
            !.id = <<"docker", "_", "volumes", "_", "count">>,
            !.name = <<"Docker Volumes">>,
            !.icon = Some(<<"docker">>),
            !.reporter = docker_reporter("VolumesCount")] >>

\* The name container_sensors derives: the first alias with its leading
\* slashes stripped, "unknown" when there is none.
container_name(container) ==
    LET first == IF container.names = None \/ container.names[1] = <<>>
                 THEN None
                 ELSE Some(container.names[1][1])
    IN  IF first = None THEN <<"unknown">>
        ELSE trim_start_matches(first[1], "/")

docker_container_reporter(container, cell, stat) ==
    Some([kind |-> "DockerContainer", container |-> container,
          stats_stash |-> cell, stat |-> stat])

\* UnraidStats::container_sensors; `cell` names the stats_stash the call
\* allocates and the three reporters share.
container_sensors(container, cell) ==
    LET n == container_name(container)
    IN  << [default_sensor EXCEPT
                !.id = <<"dockercontainer", "_">> \o n \o <<"_", "cpu">>,
                !.name = device_name \o <<" Docker ">> \o n \o <<" CPU">>,
                !.icon = Some(<<"mdi:cpu-64-bit">>),
                !.unit = Some(<<"%">>),
                !.reporter = docker_container_reporter(container, cell, "CpuUsage")],
           [default_sensor EXCEPT
                !.id = <<"dockercontainer", "_">> \o n \o <<"_", "memory">>,
                !.name = device_name \o <<" Docker ">> \o n \o <<" Memory">>,
                !.icon = Some(<<"mdi:memory">>),
                !.unit = Some(<<"B">>),
                !.device_class = Some("DataSize"),
                !.reporter = docker_container_reporter(container, cell, "MemoryUsage")],
           [default_sensor EXCEPT
                !.id = <<"dockercontainer", "_">> \o n \o <<"_", "uptime">>,
                !.name = device_name \o <<" Docker ">> \o n \o <<" Uptime">>,
                !.icon = Some(<<"mdi:docker">>),
                !.reporter = docker_container_reporter(container, cell, "Status")] >>

\* UnraidStats::containers followed by unwrap_or_default: a failed listing is
\* an empty list.
containers(answer) == IF answer.ok THEN answer.list ELSE <<>>

\* The flat_map of container_sensors over the listing, the i-th container's
\* stash being cell i.
RECURSIVE container_catalog(_, _)
container_catalog(list, i) ==
    IF i > Len(list) THEN <<>>
    ELSE container_sensors(list[i], i) \o container_catalog(list, i + 1)

\* The catalog before any override: host sensors, then each container's triplet.
builtin_sensors(answer) ==
    host_sensors \o container_catalog(containers(answer), 1)

(***************************************************************************)
(* The override engine                                                     *)
(***************************************************************************)
\* A bug that takes the second segment where the code takes the last one.
star_id_second(id) ==
    LET first == iter_nth(split(id), 0)
    IN  unwrap_or(first.item, <<>>) \o STAR
            \o unwrap_or(iter_nth(first.rest, 0).item, <<>>)

\* A derivation that takes the first and the last segment of the whole id, so
\* that an id of one segment is used on both sides of the star.
star_id_reuse(id) ==
    LET segments == split(id)
    IN  segments[1] \o STAR \o segments[Len(segments)]

\* The key of the wildcard lookup: format!("{}_*_{}", nth(0), last()) on one
\* and the same split iterator, so last() sees what nth(0) left.
star_id(id) ==
    LET first == iter_nth(split(id), 0)
    IN  unwrap_or(first.item, <<>>) \o STAR
            \o unwrap_or(iter_last(first.rest), <<>>)

\* HashMap::get on the configuration, narrowed to the override variant as the
\* `if let Some(Sensors::SensorOverride(update))` pattern does.
get_override(config, key) ==
    IF key \in DOMAIN config /\ config[key].type = "override"
    THEN Some(config[key])
    ELSE None

\* A bug that merges the exact override first and the wildcard override second.
override_sensor_star_last(sensor, config) ==
    LET star == get_override(config, star_id(sensor.id))
        exact == get_override(config, sensor.id)
        s1 == IF is_some(exact) THEN merge(sensor, exact[1]) ELSE sensor
        s2 == IF is_some(star) THEN merge(s1, star[1]) ELSE s1
    IN  [sensor |-> s2, star_id |-> star_id(sensor.id),
         star |-> is_some(star), exact |-> is_some(exact)]

\* One turn of the loop over the built-ins: the wildcard lookup and merge, then
\* the exact lookup and merge.  The result keeps the key that was looked up and
\* whether each lookup led to a merge call.
override_sensor(sensor, config) ==
    LET star == get_override(config, star_id(sensor.id))
        s1 == IF is_some(star) THEN merge(sensor, star[1]) ELSE sensor
        exact == get_override(config, s1.id)
        s2 == IF is_some(exact) THEN merge(s1, exact[1]) ELSE s1
    IN  [sensor |-> s2, star_id |-> star_id(sensor.id),
         star |-> is_some(star), exact |-> is_some(exact)]

\* impl From<&CommandSensor> for Sensor
from_command(command_sensor) ==
    [id |-> command_sensor.id,
     name |-> command_sensor.name,
     unit |-> command_sensor.unit,
     device_class |-> command_sensor.device_class,
     icon |-> command_sensor.icon,
     disabled |-> command_sensor.disabled,
     reporter |-> command_reporter(command_sensor.command, command_sensor.args,
                                   IF command_sensor.post_process = None
                                   THEN "to_string"
                                   ELSE command_sensor.post_process[1])]

\* The second loop of UnraidStats::sensors: every command entry, in the order
\* `keys` in which the HashMap hands out its values.
command_sensors(config, keys) ==
    LET commands == SelectSeq(keys, LAMBDA k : config[k].type = "command")
    IN  [i \in 1..Len(commands) |-> from_command(config[commands[i]])]

\* The first loop of UnraidStats::sensors: one turn for each built-in, in order.
RECURSIVE override_all(_, _, _)
override_all(builtin, config, i) ==
    IF i > Len(builtin) THEN <<>>
    ELSE <<override_sensor(builtin[i], config)>>
             \o override_all(builtin, config, i + 1)

\* The sensors the turns of the first loop leave in the list.
RECURSIVE turned(_, _)
turned(turns, i) ==
    IF i > Len(turns) THEN <<>>
    ELSE <<turns[i].sensor>> \o turned(turns, i + 1)

\* The first loop of UnraidStats::sensors over the catalog: nothing happens
\* without a configuration.
overridden(builtin, config) ==
    IF config = None THEN [list |-> builtin, lookups |-> <<>>]
    ELSE LET turns == override_all(builtin, config[1], 1)
         IN  [list |-> turned(turns, 1), lookups |-> turns]

\* A bug that puts the command sensors in front of the built-ins.
push_commands_front(first, config, keys) ==
    IF config = None THEN first
    ELSE [first EXCEPT !.list = command_sensors(config[1], keys) \o @]

\* The second loop of UnraidStats::sensors: Vec::push of every command sensor
\* onto the list the first loop left.
push_commands(first, config, keys) ==
    IF config = None THEN first
    ELSE [first EXCEPT !.list = @ \o command_sensors(config[1], keys)]

\* UnraidStats::sensors: the catalog, the overrides applied in place when a
\* configuration is loaded, then the command sensors.  `lookups` keeps each
\* turn of the override loop.
sensors(answer, config, keys) ==
    push_commands(overridden(builtin_sensors(answer), config), config, keys)

\* The keys of a configuration, none without a configuration.
config_keys(config) == IF config = None THEN {} ELSE DOMAIN config[1]

(***************************************************************************)
(* Inputs                                                                  *)
(***************************************************************************)
\* The longest sequence of merge calls the merge harness makes on one sensor.
MaxMerges == 2

\* The largest number of entries of a user configuration.
MaxEntries == 2

\* The largest number of running containers.
MaxContainers == 2

web == [id |-> Some(<<"c1">>),
        names |-> Some(<< <<"/", "web">> >>),
        status |-> Some(<<"Up 2 hours">>)]

my_db == [id |-> Some(<<"c2">>),
          names |-> Some(<< <<"/", "my", "_", "db">>, <<"/", "db">> >>),
          status |-> Some(<<"Up 5 minutes">>)]

unnamed == [id |-> Some(<<"c3">>), names |-> None, status |-> None]

\* The containers the engine may report, in the order it reports them.
Engine == <<web, my_db, unnamed>>

\* The subsequence of s at the positions in set.
RECURSIVE pick(_, _, _)
pick(s, set, i) ==
    IF i > Len(s) THEN <<>>
    ELSE (IF i \in set THEN <<s[i]>> ELSE <<>>) \o pick(s, set, i + 1)

\* The answers to the running-containers query: an error, or any listing of at
\* most MaxContainers containers.
Answers ==
    {[ok |-> FALSE, list |-> <<>>]} \cup
    {[ok |-> TRUE, list |-> pick(Engine, set, 1)] :
        set \in {x \in SUBSET (1..Len(Engine)) : Cardinality(x) <= MaxContainers}}

wildcard_memory == <<"dockercontainer", "_", "*", "_", "memory">>

web_memory == <<"dockercontainer", "_", "web", "_", "memory">>

\* The keys of the configurations: a wildcard key and an exact key of the
\* container memory sensors, the wildcard key of `uptime`, the id of a
\* built-in, an id of no built-in, and the empty key.
Keys ==
    { wildcard_memory,
      web_memory,
      <<"uptime", "_", "*", "_">>,
      <<"cpu", "_", "usage">>,
      <<"fan", "_", "speed">>,
      <<>> }

\* The values user entries set: palette "A" comes with disabled = false,
\* palette "B" with disabled = true.
Palettes == {"A", "B"}

palette(p) ==
    IF p = "A"
    THEN [name |-> <<"Custom A">>, unit |-> <<"MiB">>,
          device_class |-> "Power", icon |-> <<"chip">>, disabled |-> FALSE]
    ELSE [name |-> <<"Custom B">>, unit |-> <<"GiB">>,
          device_class |-> "Energy", icon |-> <<"gauge">>, disabled |-> TRUE]

Fields == {"name", "unit", "device_class", "icon"}

\* A SensorConfig as deserialize_sensors leaves it: the id is the key, the
\* optional fields in `mask` are set from palette p.
sensor_config_entry(key, mask, p, disabled) ==
    [type |-> "override", id |-> key,
     name |-> IF "name" \in mask THEN Some(palette(p).name) ELSE None,
     unit |-> IF "unit" \in mask THEN Some(palette(p).unit) ELSE None,
     device_class |-> IF "device_class" \in mask
                      THEN Some(palette(p).device_class) ELSE None,
     icon |-> IF "icon" \in mask THEN Some(palette(p).icon) ELSE None,
     disabled |-> disabled]

\* A CommandSensor as deserialize_sensors leaves it.
command_sensor_entry(key, p, disabled) ==
    [type |-> "command", id |-> key,
     name |-> palette(p).name,
     unit |-> Some(palette(p).unit),
     device_class |-> None,
     icon |-> Some(palette(p).icon),
     command |-> <<"cat">>,
     args |-> Some(<< <<"/", "proc", "/", "fan">> >>),
     post_process |-> Some("ParseFloat"),
     disabled |-> disabled]

\* The entries a configuration may hold under key k: an override that sets none
\* or all of the optional fields, or a command.
Entries(k) ==
    {sensor_config_entry(k, mask, p, palette(p).disabled) :
        mask \in {{}, Fields}, p \in Palettes}
    \cup {command_sensor_entry(k, "A", d) : d \in BOOLEAN}

\* The loaded configurations: no configuration file, or a map of at most
\* MaxEntries entries.
Configs ==
    {None} \cup
    UNION {{Some(c) : c \in {f \in [keys -> UNION {Entries(k) : k \in keys}] :
                                \A k \in keys : f[k] \in Entries(k)}} :
           keys \in {x \in SUBSET Keys : Cardinality(x) <= MaxEntries}}

\* The keys of the command entries of a configuration.
command_keys(config) ==
    {k \in config_keys(config) : config[1][k].type = "command"}

\* The orders in which a HashMap may hand out the keys `keys`.
Orders(keys) ==
    {o \in [1..Cardinality(keys) -> keys] :
        \A i, j \in 1..Cardinality(keys) : i # j => o[i] # o[j]}

\* The sensors the merge harness starts from: two sensors of the catalog, one
\* with every optional field set and one with an id of a single segment.
MergeSensors ==
    {s \in {host_sensors[i] : i \in 1..Len(host_sensors)} :
        s.id \in { <<"memory", "_", "total">>, <<"uptime">> }}

\* The patches of the merge harness: the id of either sensor or a wildcard id,
\* any set of optional fields, disabled or not.
Patches ==
    {sensor_config_entry(k, mask, "A", d) :
        k \in { <<"memory", "_", "total">>, <<"uptime">>,
                <<"dockercontainer", "_", "*", "_", "memory">> },
        mask \in SUBSET Fields, d \in BOOLEAN}

NoAnswer == [ok |-> FALSE, list |-> <<>>]

(***************************************************************************)
(* The merge harness: a sequence of merge calls on one sensor              *)
(***************************************************************************)
InitMerge ==
    /\ self \in MergeSensors
    /\ prior = self
    /\ other = None
    /\ merges = 0
    /\ engine = NoAnswer
    /\ sensor_config = None
    /\ built = None
    /\ json_output = FALSE
    /\ skip_discovery = FALSE
    /\ client = FALSE
    /\ pc = "idle"
    /\ pass_list = <<>>
    /\ idx = 0
    /\ stats_stash = <<>>
    /\ transport = <<>>
    /\ rejected = <<>>
    /\ stdout = <<>>
    /\ invoked = <<>>
    /\ no_values = 0
    /\ rep_source = None
    /\ rep_reply = None
    /\ rep_got = None
    /\ dump = None
    /\ reloaded = None
    /\ task = <<>>
    /\ queries = 0

Merge(o) ==
    /\ merges < MaxMerges
    /\ prior' = self
    /\ other' = Some(o)
    /\ self' = merge(self, o)
    /\ merges' = merges + 1
    /\ UNCHANGED <<engineVars, flagVars, passVars, reporterVars, dumpVars, taskVars>>

NextMerge == \E o \in Patches : Merge(o)

SpecMerge == InitMerge /\ [][NextMerge]_vars

(***************************************************************************)
(* The override engine: one call of UnraidStats::sensors                   *)
(***************************************************************************)
InitSensors ==
    /\ engine \in Answers
    /\ sensor_config \in Configs
    /\ built = None
    /\ self = default_sensor
    /\ prior = default_sensor
    /\ other = None
    /\ merges = 0
    /\ json_output = FALSE
    /\ skip_discovery = FALSE
    /\ client = FALSE
    /\ pc = "idle"
    /\ pass_list = <<>>
    /\ idx = 0
    /\ stats_stash = <<>>
    /\ transport = <<>>
    /\ rejected = <<>>
    /\ stdout = <<>>
    /\ invoked = <<>>
    /\ no_values = 0
    /\ rep_source = None
    /\ rep_reply = None
    /\ rep_got = None
    /\ dump = None
    /\ reloaded = None
    /\ task = <<>>
    /\ queries = 0

\* One call of UnraidStats::sensors.  The first loop does not depend on the
\* order of the HashMap; the second appends in that order.
Sensors ==
    /\ built = None
    /\ \E first \in {overridden(builtin_sensors(engine), sensor_config)} :
         \E keys \in Orders(command_keys(sensor_config)) :
           built' = Some(push_commands(first, sensor_config, keys))
    /\ UNCHANGED <<engine, sensor_config>>
    /\ UNCHANGED <<mergeVars, flagVars, passVars, reporterVars, dumpVars, taskVars>>

NextSensors == Sensors

SpecSensors == InitSensors /\ [][NextSensors]_vars

(***************************************************************************)
(* The sensor dump and a run that loads it as its configuration           *)
(***************************************************************************)
\* The table toml::to_string writes for SensorsDump::SensorOverride(sensor):
\* the tag, then the fields of Sensor that are not skipped; a field that is
\* None is left out, `id` and `reporter` are never written.
dump_table(sensor) ==
    [f \in {"type", "name", "disabled"}
           \cup {o \in {"unit", "device_class", "icon"} : is_some(sensor[o])}
        |-> CASE f = "type" -> "override"
              [] f = "name" -> sensor.name
              [] f = "disabled" -> sensor.disabled
              [] OTHER -> sensor[f][1]]

\* collect::<HashMap<String, SensorsDump>>() over the list: of two sensors
\* with one id the later one stays.
collect(sensor_list) ==
    [id \in {sensor_list[i].id : i \in 1..Len(sensor_list)} |->
        sensor_list[CHOOSE i \in 1..Len(sensor_list) :
                        /\ sensor_list[i].id = id
                        /\ \A j \in (i + 1)..Len(sensor_list) :
                              sensor_list[j].id # id]]

\* UnraidStats::dump_sensors_toml: the file written for the list.
dump_sensors_toml(sensor_list) ==
    LET dump_sensors == collect(sensor_list)
    IN  [id \in DOMAIN dump_sensors |-> dump_table(dump_sensors[id])]

\* A field of a table read into an Option: None when the table has no such key.
table_get(table, f) == IF f \in DOMAIN table THEN Some(table[f]) ELSE None

\* load_config with deserialize_sensors: every table becomes the variant its
\* tag names, with the key as the id.
load_config(file) ==
    [key \in DOMAIN file |->
        IF file[key].type = "override"
        THEN [type |-> "override", id |-> key,
              name |-> table_get(file[key], "name"),
              unit |-> table_get(file[key], "unit"),
              device_class |-> table_get(file[key], "device_class"),
              icon |-> table_get(file[key], "icon"),
              disabled |-> file[key].disabled]
        ELSE [type |-> "command", id |-> key,
              name |-> file[key].name,
              unit |-> table_get(file[key], "unit"),
              device_class |-> table_get(file[key], "device_class"),
              icon |-> table_get(file[key], "icon"),
              command |-> file[key].command,
              args |-> table_get(file[key], "args"),
              post_process |-> table_get(file[key], "post_process"),
              disabled |-> file[key].disabled]]

InitDump == InitSensors

\* A run with --sensor-dump: one call of UnraidStats::sensors, then the file.
DumpSensorsToml ==
    /\ dump = None
    /\ \E first \in {overridden(builtin_sensors(engine), sensor_config)} :
         \E keys \in Orders(command_keys(sensor_config)) :
           \E made \in {push_commands(first, sensor_config, keys)} :
              /\ built' = Some(made)
              /\ dump' = Some(dump_sensors_toml(made.list))
    /\ UNCHANGED <<engine, sensor_config, reloaded>>
    /\ UNCHANGED <<mergeVars, flagVars, passVars, reporterVars, taskVars>>

\* A later run with the dump as its configuration file, the engine answering
\* as before: load_config, then one call of UnraidStats::sensors.
LoadDump ==
    /\ dump # None
    /\ reloaded = None
    /\ \E config \in {Some(load_config(dump[1]))} :
         \E first \in {overridden(builtin_sensors(engine), config)} :
           \E keys \in Orders(command_keys(config)) :
              reloaded' = Some(push_commands(first, config, keys))
    /\ UNCHANGED <<engineVars, dump>>
    /\ UNCHANGED <<mergeVars, flagVars, passVars, reporterVars, taskVars>>

NextDump == DumpSensorsToml \/ LoadDump

SpecDump == InitDump /\ [][NextDump]_vars

(***************************************************************************)
(* Text of command output: sequences of characters, "deg" for the degree   *)
(* sign                                                                    *)
(***************************************************************************)
\* char::is_whitespace
is_whitespace(c) == c \in {" ", "\n", "\t", "\r"}

\* str::trim_start
RECURSIVE trim_start(_)
trim_start(s) ==
    IF s # <<>> /\ is_whitespace(s[1]) THEN trim_start(Tail(s)) ELSE s

\* str::trim_end
RECURSIVE trim_end(_)
trim_end(s) ==
    IF s # <<>> /\ is_whitespace(s[Len(s)])
    THEN trim_end(SubSeq(s, 1, Len(s) - 1))
    ELSE s

\* str::trim
trim(s) == trim_end(trim_start(s))

\* The position of the first character of s at or after i that is in set,
\* 0 if there is none.
RECURSIVE position(_, _, _)
position(s, set, i) ==
    IF i > Len(s) THEN 0
    ELSE IF s[i] \in set THEN i
    ELSE position(s, set, i + 1)

\* str::lines: the lines between line feeds, each without its line feed and
\* without a carriage return before it; nothing after the last line feed.
RECURSIVE lines(_)
lines(s) ==
    LET strip(l) == IF l # <<>> /\ l[Len(l)] = "\r"
                    THEN SubSeq(l, 1, Len(l) - 1) ELSE l
        i == position(s, {"\n"}, 1)
    IN  IF s = <<>> THEN <<>>
        ELSE IF i = 0 THEN <<s>>
        ELSE <<strip(SubSeq(s, 1, i - 1))>> \o lines(SubSeq(s, i + 1, Len(s)))

\* str::split_whitespace: the non-empty words between runs of whitespace.
RECURSIVE split_whitespace(_)
split_whitespace(s) ==
    LET rest == trim_start(s)
        i == position(rest, {" ", "\n", "\t", "\r"}, 1)
    IN  IF rest = <<>> THEN <<>>
        ELSE IF i = 0 THEN <<rest>>
        ELSE <<SubSeq(rest, 1, i - 1)>>
                 \o split_whitespace(SubSeq(rest, i + 1, Len(rest)))

\* str::starts_with
starts_with(s, pat) == Len(pat) <= Len(s) /\ SubSeq(s, 1, Len(pat)) = pat

\* str::trim_start_matches with a text pattern
RECURSIVE trim_start_matches_str(_, _)
trim_start_matches_str(s, pat) ==
    IF pat # <<>> /\ starts_with(s, pat)
    THEN trim_start_matches_str(SubSeq(s, Len(pat) + 1, Len(s)), pat)
    ELSE s

\* str::trim_end_matches with a text pattern
RECURSIVE trim_end_matches(_, _)
trim_end_matches(s, pat) ==
    IF /\ pat # <<>>
       /\ Len(pat) <= Len(s)
       /\ SubSeq(s, Len(s) - Len(pat) + 1, Len(s)) = pat
    THEN trim_end_matches(SubSeq(s, 1, Len(s) - Len(pat)), pat)
    ELSE s

\* Iterator::find on a sequence: the first item that satisfies P.
RECURSIVE iter_find(_, _, _)
iter_find(it, P(_), i) ==
    IF i > Len(it) THEN None
    ELSE IF P(it[i]) THEN Some(it[i])
    ELSE iter_find(it, P, i + 1)

Digits == <<"0", "1", "2", "3", "4", "5", "6", "7", "8", "9">>

\* char::is_numeric, on the characters of the model
is_numeric(c) == \E d \in 1..10 : Digits[d] = c

is_digits(s) == s # <<>> /\ \A i \in 1..Len(s) : is_numeric(s[i])

\* The number a text of decimal digits writes.
RECURSIVE digits_value(_)
digits_value(s) ==
    IF s = <<>> THEN 0
    ELSE 10 * digits_value(SubSeq(s, 1, Len(s) - 1))
             + ((CHOOSE d \in 1..10 : Digits[d] = s[Len(s)]) - 1)

\* The decimal digits that write a number.
RECURSIVE value_digits(_)
value_digits(n) ==
    IF n < 10 THEN <<Digits[n + 1]>>
    ELSE value_digits(n \div 10) \o <<Digits[(n % 10) + 1]>>

\* A text of digits without its leading zeros, "0" for zero.
RECURSIVE significant(_)
significant(s) ==
    IF Len(s) > 1 /\ s[1] = "0" THEN significant(Tail(s))
    ELSE IF s = <<>> THEN <<"0">>
    ELSE s

\* Whether the number the digits a write is at most the one the digits b
\* write, both without leading zeros.
RECURSIVE digits_le(_, _)
digits_le(a, b) ==
    IF Len(a) # Len(b) THEN Len(a) < Len(b)
    ELSE IF a = <<>> THEN TRUE
    ELSE IF a[1] # b[1] THEN digits_value(<<a[1]>>) < digits_value(<<b[1]>>)
    ELSE digits_le(Tail(a), Tail(b))

\* str::parse::<f64> on the decimal forms: an optional sign, then digits with
\* an optional point among them and at least one digit.  The number is kept as
\* its sign, the digits of its whole part without leading zeros and its
\* fraction digits without trailing zeros.  Exponents, "inf" and "nan" are not
\* among the texts of the model.
parse_f64(s) ==
    LET signed == s # <<>> /\ s[1] \in {"+", "-"}
        body == IF signed THEN Tail(s) ELSE s
        dot == position(body, {"."}, 1)
        whole == IF dot = 0 THEN body ELSE SubSeq(body, 1, dot - 1)
        frac == IF dot = 0 THEN <<>> ELSE SubSeq(body, dot + 1, Len(body))
    IN  IF /\ (whole # <<>> \/ frac # <<>>)
           /\ \A i \in 1..Len(whole) : is_numeric(whole[i])
           /\ \A i \in 1..Len(frac) : is_numeric(frac[i])
        THEN Some([neg |-> signed /\ s[1] = "-",
                   whole |-> significant(whole),
                   frac |-> trim_end_matches(frac, <<"0">>)])
        ELSE None

\* i64::MAX
i64_max ==
    <<"9", "2", "2", "3", "3", "7", "2", "0", "3", "6", "8", "5", "4", "7", "7",
      "5", "8", "0", "7">>

\* str::parse::<i64>: an optional sign, then at least one digit, of a number
\* an i64 holds.
parse_i64(s) ==
    LET signed == s # <<>> /\ s[1] \in {"+", "-"}
        body == IF signed THEN Tail(s) ELSE s
        neg == signed /\ s[1] = "-"
        min == [i64_max EXCEPT ![19] = "8"]
    IN  IF is_digits(body)
           /\ digits_le(significant(body), IF neg THEN min ELSE i64_max)
        THEN Some([neg |-> neg /\ significant(body) # <<"0">>,
                   whole |-> significant(body), frac |-> <<>>])
        ELSE None

\* f64::to_string and i64::to_string (Display)
to_string(v) ==
    (IF v.neg THEN <<"-">> ELSE <<>>) \o v.whole
        \o (IF v.frac = <<>> THEN <<>> ELSE <<".">> \o v.frac)

\* format!("{:.1}", f64) for a number with at most one fraction digit
format_1(v) ==
    (IF v.neg THEN <<"-">> ELSE <<>>) \o v.whole \o <<".">>
        \o (IF v.frac = <<>> THEN <<"0">> ELSE <<v.frac[1]>>)

Lower == <<"a", "b", "c", "d", "e", "f", "g", "h", "i", "j", "k", "l", "m",
           "n", "o", "p", "q", "r", "s", "t", "u", "v", "w", "x", "y", "z">>

Upper == <<"A", "B", "C", "D", "E", "F", "G", "H", "I", "J", "K", "L", "M",
           "N", "O", "P", "Q", "R", "S", "T", "U", "V", "W", "X", "Y", "Z">>

\* str::to_uppercase
to_uppercase(s) ==
    [i \in 1..Len(s) |->
        IF \E k \in 1..26 : Lower[k] = s[i]
        THEN Upper[CHOOSE k \in 1..26 : Lower[k] = s[i]]
        ELSE s[i]]

\* str::to_lowercase
to_lowercase(s) ==
    [i \in 1..Len(s) |->
        IF \E k \in 1..26 : Upper[k] = s[i]
        THEN Lower[CHOOSE k \in 1..26 : Upper[k] = s[i]]
        ELSE s[i]]

\* A bug that reads the usage from the fourth field.
parse_disk_usage_fourth(df_output) ==
    LET second == iter_nth(lines(df_output), 1).item
    IN  IF second = None THEN None
        ELSE LET parts == split_whitespace(second[1])
             IN  IF Len(parts) >= 5
                 THEN LET usage_percent ==
                              parse_f64(trim_end_matches(parts[4], <<"%">>))
                      IN  IF usage_percent = None THEN None
                          ELSE Some([total |-> parts[2], available |-> parts[4],
                                     usage_percent |-> usage_percent[1]])
                 ELSE None

\* parse_disk_usage: the second line, split at whitespace; with five fields
\* or more and a number in the fifth once its "%" are cut, the second, fourth
\* and fifth fields.
parse_disk_usage(df_output) ==
    LET second == iter_nth(lines(df_output), 1).item
    IN  IF second = None THEN None
        ELSE LET parts == split_whitespace(second[1])
             IN  IF Len(parts) >= 5
                 THEN LET usage_percent ==
                              parse_f64(trim_end_matches(parts[5], <<"%">>))
                      IN  IF usage_percent = None THEN None
                          ELSE Some([total |-> parts[2], available |-> parts[4],
                                     usage_percent |-> usage_percent[1]])
                 ELSE None

\* parse_cpu_temp: the first line with "Package id 0", its first word with the
\* degree sign and "C", read as a number without "+" in front and the unit
\* behind.
parse_cpu_temp(sensors_output) ==
    LET package == <<"P", "a", "c", "k", "a", "g", "e", " ", "i", "d", " ", "0">>
        has_package(line) == contains(line, package)
        has_unit(word) == contains(word, <<"deg", "C">>)
        line == iter_find(lines(sensors_output), has_package, 1)
    IN  IF line = None THEN None
        ELSE LET temp == iter_find(split_whitespace(line[1]), has_unit, 1)
             IN  IF temp = None THEN None
                 ELSE parse_f64(trim_end_matches(
                                    trim_start_matches(temp[1], "+"),
                                    <<"deg", "C">>))

\* parse_array_status: the first line that starts with "mdState=", without it.
parse_array_status(status_output) ==
    LET md_state == <<"m", "d", "S", "t", "a", "t", "e", "=">>
        is_state(line) == starts_with(line, md_state)
        line == iter_find(lines(status_output), is_state, 1)
    IN  IF line = None THEN None
        ELSE Some(trim_start_matches_str(line[1], md_state))

\* The transform of a command reporter: the closures of the host catalog and
\* the ones impl From<&CommandSensor> builds from post_process.
transform_fn(transform, s) ==
    LET map(o, f(_)) == IF o = None THEN None ELSE Some(f(o[1]))
        usage(d) == to_string(d.usage_percent)
        total(d) == d.total
        available(d) == d.available
        same(x) == x
    IN  CASE transform = "disk_usage_percent" -> map(parse_disk_usage(s), usage)
          [] transform = "disk_total" -> map(parse_disk_usage(s), total)
          [] transform = "disk_available" -> map(parse_disk_usage(s), available)
          [] transform = "cpu_temp" -> map(parse_cpu_temp(s), format_1)
          [] transform = "array_status" -> map(parse_array_status(s), same)
          [] transform = "TrimWhitespace" -> Some(trim(s))
          [] transform = "ParseFloat" -> map(parse_f64(s), to_string)
          [] transform = "ParseInteger" -> map(parse_i64(s), to_string)
          [] transform = "ExtractNumber" ->
                 map(parse_f64(SelectSeq(s, is_numeric)), to_string)
          [] transform = "ToUpperCase" -> Some(to_uppercase(s))
          [] transform = "ToLowerCase" -> Some(to_lowercase(s))
          [] OTHER -> Some(s)

(***************************************************************************)
(* Topics, discovery documents and reporters                               *)
(***************************************************************************)
\* format!("unraid_{}", self.device_name)
node_id == <<"unraid", "_">> \o device_name

\* Args::discovery_prefix, default "homeassistant"
discovery_prefix == <<"homeassistant">>

\* Sensor::sensor_topic
sensor_topic(sensor, node) ==
    node \o <<"/", "sensor", "/">> \o sensor.id \o <<"/", "state">>

\* A bug that leaves the node out of the discovery topic.
discovery_topic_flat(sensor, prefix, node) ==
    prefix \o <<"/", "sensor", "/">> \o sensor.id \o <<"/", "config">>

\* Sensor::discovery_topic
discovery_topic(sensor, prefix, node) ==
    prefix \o <<"/", "sensor", "/">> \o node \o <<"/">> \o sensor.id
        \o <<"/", "config">>

\* UnraidStats::get_device_info; the version file is not modelled and read as
\* missing.
get_device_info ==
    [identifiers |-> << <<"unraid", "_">> \o device_name >>,
     name |-> <<"Unraid ">> \o device_name,
     model |-> <<"Unraid Server">>,
     manufacturer |-> <<"Lime Technology">>,
     sw_version |-> <<"Unknown">>]

\* Sensor::disovery_config; a key the document does not hold is None.
disovery_config(sensor, device, node, device_info) ==
    [name |-> device \o <<" ">> \o sensor.name,
     state_topic |-> sensor_topic(sensor, node),
     unique_id |-> node \o <<"_">> \o sensor.id,
     device |-> device_info,
     unit_of_measurement |-> sensor.unit,
     device_class |-> sensor.device_class,
     icon |-> IF sensor.icon = None THEN None
              ELSE Some(<<"mdi:">> \o sensor.icon[1])]

\* SystemSensorReporter::get_value: every arm yields a value.
system_get_value(reporter) == Some(<<"reading of ", reporter.name>>)

\* CommandSensorReporter::get_value: no value when the command cannot be
\* run; else its output, lossily decoded and trimmed, through the transform.
\* `reply` is what running the command gave: whether it started, and its
\* standard output.
command_get_value(reporter, reply) ==
    IF reply.started THEN transform_fn(reporter.transform, trim(reply.stdout))
    ELSE None

\* DockerSensorReporter::get_value: the number the listing gives, no value
\* when the listing query fails.
docker_get_value(reporter, reply) ==
    IF reply.listed THEN Some(value_digits(reply.count)) ELSE None

\* The number of bits of the engine's counters in the model; the code's u64
\* has 64.
CounterBits == 8

\* `a - b` on unsigned counters: with overflow checks (a debug build) the
\* subtraction of a larger number panics, without them (a release build) it
\* wraps.
counter_sub(a, b, overflow_checks) ==
    IF a >= b THEN [fault |-> FALSE, value |-> a - b]
    ELSE IF overflow_checks THEN [fault |-> TRUE, value |-> 0]
    ELSE [fault |-> FALSE, value |-> a - b + 2 ^ CounterBits]

\* cpu_stats.as_ref().and_then(|c| c.cpu_usage.as_ref().and_then(|c|
\* c.total_usage)).unwrap_or_default()
total_usage_or_default(cpu) ==
    IF cpu = None \/ cpu[1].cpu_usage = None THEN 0
    ELSE unwrap_or(cpu[1].cpu_usage[1].total_usage, 0)

\* cpu_stats.as_ref().and_then(|c| c.system_cpu_usage).unwrap_or_default()
system_cpu_usage_or_default(cpu) ==
    IF cpu = None THEN 0 ELSE unwrap_or(cpu[1].system_cpu_usage, 0)

\* cpu_stats.as_ref().and_then(|c| c.online_cpus).unwrap_or_default()
online_cpus_or_default(cpu) ==
    IF cpu = None THEN 0 ELSE unwrap_or(cpu[1].online_cpus, 0)

\* calculate_cpu_percent: the two deltas by unsigned subtraction, then the
\* percentage when both are positive, 0.0 otherwise.  The f64 is kept as the
\* fraction num / den it rounds; `fault` is the panic of a subtraction.
calculate_cpu_percent(stats, overflow_checks) ==
    LET cpu_delta == counter_sub(total_usage_or_default(stats.cpu_stats),
                                 total_usage_or_default(stats.precpu_stats),
                                 overflow_checks)
        system_delta == counter_sub(system_cpu_usage_or_default(stats.cpu_stats),
                                    system_cpu_usage_or_default(stats.precpu_stats),
                                    overflow_checks)
    IN  IF cpu_delta.fault \/ system_delta.fault
        THEN [fault |-> TRUE, num |-> 0, den |-> 1]
        ELSE IF system_delta.value > 0 /\ cpu_delta.value > 0
        THEN [fault |-> FALSE,
              num |-> cpu_delta.value * online_cpus_or_default(stats.cpu_stats) * 100,
              den |-> system_delta.value]
        ELSE [fault |-> FALSE, num |-> 0, den |-> 1]

\* format!("{}", f64) of the fraction num / den, to three places at most.
RECURSIVE places(_, _, _)
places(remainder, den, left) ==
    IF left = 0 \/ remainder = 0 THEN <<>>
    ELSE <<Digits[((remainder * 10) \div den) + 1]>>
             \o places((remainder * 10) % den, den, left - 1)

f64_display(num, den) ==
    to_string([neg |-> FALSE, whole |-> value_digits(num \div den),
               frac |-> trim_end_matches(places(num % den, den, 3), <<"0">>)])

\* DockerContainerSensorReporter::get_value: with an empty stash, the stats
\* stream of the container is opened under its id, `unwrap` panicking when
\* the summary has none, and the stash is filled with the sample when the
\* stream hands one out; then the value is read from the stash by the stat.
\* `reply` is what the stream hands out first.  The result keeps the stash,
\* whether a query was made, whether it failed, the percentage computed and
\* whether the call panicked.
docker_container_get_value(reporter, stash, reply, overflow_checks) ==
    LET cell == reporter.stats_stash
        empty == stash[cell] = None
        no_id == empty /\ reporter.container.id = None
        queried == empty /\ ~no_id
        filled == IF queried /\ reply.sample # None
                  THEN [stash EXCEPT ![cell] = reply.sample]
                  ELSE stash
        cpu_percent == IF filled[cell] # None /\ reporter.stat = "CpuUsage"
                       THEN Some(calculate_cpu_percent(filled[cell][1],
                                                       overflow_checks))
                       ELSE None
        fault == no_id \/ (cpu_percent # None /\ cpu_percent[1].fault)
    IN  [stats_stash |-> IF no_id THEN stash ELSE filled,
         queried |-> queried,
         failed |-> queried /\ reply.sample = None,
         cpu_percent |-> cpu_percent,
         fault |-> fault,
         value |-> IF fault \/ filled[cell] = None THEN None
                   ELSE IF reporter.stat = "CpuUsage"
                        THEN Some(f64_display(cpu_percent[1].num,
                                              cpu_percent[1].den))
                   ELSE IF reporter.stat = "MemoryUsage"
                        THEN LET memory_stats == filled[cell][1].memory_stats
                             IN  Some(value_digits(
                                     IF memory_stats = None THEN 0
                                     ELSE unwrap_or(memory_stats[1].usage, 0)))
                   ELSE reporter.container.status]

\* A bug that reports a failure of the source as a value.
get_value_error_text(reporter, stash, reply, overflow_checks) ==
    IF reporter.kind = "DockerContainer"
    THEN LET got == docker_container_get_value(reporter, stash, reply,
                                               overflow_checks)
         IN  [got EXCEPT !.value = IF got.failed THEN Some(<<"error">>) ELSE @]
    ELSE LET value == IF reporter.kind = "System" THEN system_get_value(reporter)
                      ELSE IF reporter.kind = "Command"
                           THEN command_get_value(reporter, reply)
                      ELSE docker_get_value(reporter, reply)
         IN  [stats_stash |-> stash, queried |-> FALSE,
              failed |-> value = None, cpu_percent |-> None, fault |-> FALSE,
              value |-> IF value = None THEN Some(<<"error">>) ELSE value]

\* SensorReporterType::get_value
get_value(reporter, stash, reply, overflow_checks) ==
    IF reporter.kind = "DockerContainer"
    THEN docker_container_get_value(reporter, stash, reply, overflow_checks)
    ELSE LET value == IF reporter.kind = "System" THEN system_get_value(reporter)
                      ELSE IF reporter.kind = "Command"
                           THEN command_get_value(reporter, reply)
                      ELSE docker_get_value(reporter, reply)
         IN  [stats_stash |-> stash, queried |-> FALSE,
              failed |-> value = None, cpu_percent |-> None, fault |-> FALSE,
              value |-> value]

\* What `df` prints for the disk of the model.
df_output ==
    <<"F", "i", "l", "e", "s", "y", "s", "t", "e", "m", " ", "1", "M",
      "-", "b", "l", "o", "c", "k", "s", " ", "U", "s", "e", "d", " ",
      "A", "v", "a", "i", "l", "a", "b", "l", "e", " ", "U", "s", "e",
      "%", " ", "M", "o", "u", "n", "t", "e", "d", " ", "o", "n", "\n",
      "/", "d", "e", "v", "/", "s", "d", "a", "1", " ", "1", "0", "0",
      "M", " ", "4", "0", "M", " ", "6", "0", "M", " ", "4", "0", "%",
      " ", "/", "m", "n", "t", "/", "u", "s", "e", "r", "\n">>

\* What `sensor` prints for the package of the model.
sensors_output ==
    <<"c", "o", "r", "e", "t", "e", "m", "p", "-", "i", "s", "a", "-",
      "0", "0", "0", "0", "\n", "P", "a", "c", "k", "a", "g", "e", " ",
      "i", "d", " ", "0", ":", " ", " ", "+", "4", "5", ".", "0",
      "deg", "C", " ", " ", "(", "h", "i", "g", "h", " ", "=", " ",
      "+", "8", "0", ".", "0", "deg", "C", ")", "\n", "C", "o", "r",
      "e", " ", "0", ":", " ", " ", "+", "4", "4", ".", "0", "deg",
      "C", "\n">>

\* What `mdcmd status` prints for the array of the model.
status_output ==
    <<"s", "b", "N", "a", "m", "e", "=", "/", "b", "o", "o", "t", "/",
      "c", "o", "n", "f", "i", "g", "/", "s", "u", "p", "e", "r", ".",
      "d", "a", "t", "\n", "m", "d", "S", "t", "a", "t", "e", "=", "S",
      "T", "A", "R", "T", "E", "D", "\n", "m", "d", "N", "u", "m", "D",
      "i", "s", "k", "s", "=", "4", "\n">>

\* A number, as a user's command prints it.
number_output == <<"4", "2", ".", "5", "\n">>

\* An output no parsing transform accepts.
garbage_output == <<"n", "/", "a", "\n">>

\* An output the transform of a command reporter accepts.
good_output(transform) ==
    IF transform \in {"disk_usage_percent", "disk_total", "disk_available"}
    THEN df_output
    ELSE IF transform = "cpu_temp" THEN sensors_output
    ELSE IF transform = "array_status" THEN status_output
    ELSE number_output

\* A stats sample with every field present and counters that went up.
full_sample ==
    [cpu_stats |-> Some([cpu_usage |-> Some([total_usage |-> Some(100)]),
                         system_cpu_usage |-> Some(200),
                         online_cpus |-> Some(4)]),
     precpu_stats |-> Some([cpu_usage |-> Some([total_usage |-> Some(50)]),
                            system_cpu_usage |-> Some(100),
                            online_cpus |-> Some(4)]),
     memory_stats |-> Some([usage |-> Some(7)])]

\* The reply of a call that asks no external source.
NoReply == [asked |-> FALSE]

\* What the external source of a reporter may answer in one get_value call of
\* a pass.  A system reporter and a container reporter with a filled stash ask
\* no external source.
source_outcomes(reporter, stash) ==
    IF reporter.kind = "Command"
    THEN { [started |-> FALSE, stdout |-> <<>>],
           [started |-> TRUE, stdout |-> good_output(reporter.transform)],
           [started |-> TRUE, stdout |-> garbage_output] }
    ELSE IF reporter.kind = "Docker"
    THEN { [listed |-> FALSE, count |-> 0], [listed |-> TRUE, count |-> 2] }
    ELSE IF reporter.kind = "DockerContainer" /\ stash[reporter.stats_stash] = None
    THEN { [sample |-> None], [sample |-> Some(full_sample)] }
    ELSE {NoReply}

(***************************************************************************)
(* One get_value call on its own                                           *)
(***************************************************************************)
\* The values post_process may have in a command entry.
PostProcess ==
    {"TrimWhitespace", "ParseFloat", "ParseInteger", "ExtractNumber",
     "ToUpperCase", "ToLowerCase"}

\* The summaries of a container: with and without id and status.
Summaries ==
    {[id |-> id, names |-> Some(<< <<"/", "web">> >>), status |-> status] :
        id \in {None, Some(<<"c1">>)},
        status \in {None, Some(<<"Up 2 hours">>)}}

\* The cpu_stats and precpu_stats of a sample: absent, or with each of their
\* fields absent or present.
CpuStats ==
    {None} \cup
    {Some([cpu_usage |-> cpu_usage, system_cpu_usage |-> system_cpu_usage,
           online_cpus |-> online_cpus]) :
        cpu_usage \in {None} \cup {Some([total_usage |-> total_usage]) :
                                      total_usage \in {None, Some(50), Some(100)}},
        system_cpu_usage \in {None, Some(100), Some(200)},
        online_cpus \in {None, Some(4)}}

\* The samples of the stats stream.
Samples ==
    {[cpu_stats |-> cpu_stats, precpu_stats |-> precpu_stats,
      memory_stats |-> memory_stats] :
        cpu_stats \in CpuStats, precpu_stats \in CpuStats,
        memory_stats \in {None, Some([usage |-> None]), Some([usage |-> Some(7)])}}

\* The reporters of the catalog, of command entries with each post_process and
\* of the sensors of a container.
Reporters ==
    {host_sensors[i].reporter[1] : i \in 1..Len(host_sensors)}
    \cup {from_command([command_sensor_entry(<<"fan", "_", "speed">>, "A", FALSE)
                            EXCEPT !.post_process = post_process]).reporter[1] :
             post_process \in {None} \cup {Some(name) : name \in PostProcess}}
    \cup {container_sensors(container, 1)[i].reporter[1] :
             container \in Summaries, i \in 1..3}

\* The usage line alone, without the header line before it.
usage_line ==
    <<"/", "d", "e", "v", "/", "s", "d", "a", "1", " ", "1", "0", "0",
      "M", " ", "4", "0", "M", " ", "6", "0", "M", " ", "4", "0", "%",
      " ", "/", "m", "n", "t", "/", "u", "s", "e", "r", "\n">>

\* A `df` output whose usage line has four fields.
df_output_short ==
    <<"F", "i", "l", "e", "s", "y", "s", "t", "e", "m", " ", "1", "M",
      "-", "b", "l", "o", "c", "k", "s", " ", "U", "s", "e", "d", " ",
      "A", "v", "a", "i", "l", "a", "b", "l", "e", " ", "U", "s", "e",
      "%", " ", "M", "o", "u", "n", "t", "e", "d", " ", "o", "n", "\n",
      "/", "d", "e", "v", "/", "s", "d", "a", "1", " ", "1", "0", "0",
      "M", " ", "4", "0", "M", " ", "6", "0", "M", "\n">>

\* A `df` output whose usage line has "-" for the use.
df_output_no_use ==
    <<"F", "i", "l", "e", "s", "y", "s", "t", "e", "m", " ", "1", "M",
      "-", "b", "l", "o", "c", "k", "s", " ", "U", "s", "e", "d", " ",
      "A", "v", "a", "i", "l", "a", "b", "l", "e", " ", "U", "s", "e",
      "%", " ", "M", "o", "u", "n", "t", "e", "d", " ", "o", "n", "\n",
      "/", "d", "e", "v", "/", "s", "d", "a", "1", " ", "1", "0", "0",
      "M", " ", "4", "0", "M", " ", "6", "0", "M", " ", "-", " ", "/",
      "m", "n", "t", "/", "u", "s", "e", "r", "\n">>

\* What a command may print: the outputs above, and nothing.
Outputs ==
    {df_output, sensors_output, status_output, number_output, garbage_output,
     usage_line, df_output_short, df_output_no_use, <<>>}

\* What the external source of a reporter may answer in one get_value call.
Replies(reporter, stash) ==
    IF reporter.kind = "Command"
    THEN {[started |-> FALSE, stdout |-> <<>>]}
         \cup {[started |-> TRUE, stdout |-> output] : output \in Outputs}
    ELSE IF reporter.kind = "Docker"
    THEN {[listed |-> FALSE, count |-> 0]}
         \cup {[listed |-> TRUE, count |-> count] : count \in {0, 2}}
    ELSE IF reporter.kind = "DockerContainer" /\ stash[reporter.stats_stash] = None
    THEN {[sample |-> None]} \cup {[sample |-> Some(sample)] : sample \in Samples}
    ELSE {NoReply}

InitReporter ==
    /\ rep_source \in {Some(reporter) : reporter \in Reporters}
    /\ stats_stash \in IF rep_source[1].kind = "DockerContainer"
                       THEN {<<None>>} \cup {<<Some(sample)>> : sample \in Samples}
                       ELSE {<<>>}
    /\ rep_reply = None
    /\ rep_got = None
    /\ dump = None
    /\ reloaded = None
    /\ task = <<>>
    /\ queries = 0
    /\ engine = NoAnswer
    /\ sensor_config = None
    /\ built = None
    /\ json_output = FALSE
    /\ skip_discovery = FALSE
    /\ client = FALSE
    /\ pc = "idle"
    /\ pass_list = <<>>
    /\ idx = 0
    /\ transport = <<>>
    /\ rejected = <<>>
    /\ stdout = <<>>
    /\ invoked = <<>>
    /\ no_values = 0
    /\ self = default_sensor
    /\ prior = default_sensor
    /\ other = None
    /\ merges = 0

\* One call of SensorReporterType::get_value, in a build with or without
\* overflow checks.
GetValue ==
    /\ rep_got = None
    /\ \E reply \in Replies(rep_source[1], stats_stash) :
       \E overflow_checks \in BOOLEAN :
       \E got \in {get_value(rep_source[1], stats_stash, reply, overflow_checks)} :
          /\ rep_reply' = Some(reply)
          /\ rep_got' = Some(got)
          /\ stats_stash' = got.stats_stash
    /\ UNCHANGED rep_source
    /\ UNCHANGED <<mergeVars, engineVars, flagVars, dumpVars, taskVars>>
    /\ UNCHANGED <<pc, pass_list, idx, transport, rejected, stdout, invoked, no_values>>

NextReporter == GetValue

SpecReporter == InitReporter /\ [][NextReporter]_vars

(***************************************************************************)
(* Two get_value calls running concurrently on the stash of one container  *)
(***************************************************************************)
\* What the stats stream may give the calls: two samples.
StashSamples == {full_sample, [full_sample EXCEPT !.memory_stats = None]}

\* The two reporters that run concurrently.
StashStats == {"CpuUsage", "MemoryUsage"}

\* The reporters of one container that share its stash cell 1.
stash_reporters(container) ==
    [stat \in StashStats |->
        docker_container_reporter(container, 1, stat)[1]]

\* Each call is at one of its await points: "is_none" before the locked
\* emptiness test, "next" before the first item of the stats stream, "replace"
\* before the locked fill, "clone" before the locked read, "returned" after
\* it.  A MutexGuard is a temporary of one expression with no await in it, so
\* each locked section is one step.
InitStash ==
    /\ \E container \in {web, my_db} :
          task = [stat \in StashStats |->
                     [reporter |-> stash_reporters(container)[stat],
                      at |-> "is_none", stats |-> None, value |-> None]]
    /\ stats_stash \in {<<None>>} \cup {<<Some(sample)>> : sample \in StashSamples}
    /\ queries = 0
    /\ rep_source = None
    /\ rep_reply = None
    /\ rep_got = None
    /\ dump = None
    /\ reloaded = None
    /\ engine = NoAnswer
    /\ sensor_config = None
    /\ built = None
    /\ json_output = FALSE
    /\ skip_discovery = FALSE
    /\ client = FALSE
    /\ pc = "idle"
    /\ pass_list = <<>>
    /\ idx = 0
    /\ transport = <<>>
    /\ rejected = <<>>
    /\ stdout = <<>>
    /\ invoked = <<>>
    /\ no_values = 0
    /\ self = default_sensor
    /\ prior = default_sensor
    /\ other = None
    /\ merges = 0

\* `if self.stats_stash.lock().await.is_none()`: the guard is dropped at the
\* end of the condition, before the block runs.
IsNone(stat) ==
    /\ task[stat].at = "is_none"
    /\ task' = [task EXCEPT ![stat].at =
                   IF stats_stash[1] = None THEN "next" ELSE "clone"]
    /\ UNCHANGED <<stats_stash, queries>>
    /\ UNCHANGED <<mergeVars, engineVars, flagVars, reporterVars, dumpVars>>
    /\ UNCHANGED <<pc, pass_list, idx, transport, rejected, stdout, invoked, no_values>>

\* `self.docker.stats(..)` and `stats_stream.next().await`: a query is opened,
\* and gives a sample, an error or nothing.
StreamNext(stat) ==
    /\ task[stat].at = "next"
    /\ queries' = queries + 1
    /\ \E stats \in {None} \cup {Some(sample) : sample \in StashSamples} :
          task' = [task EXCEPT ![stat].stats = stats,
                               ![stat].at = IF stats = None THEN "clone"
                                            ELSE "replace"]
    /\ UNCHANGED stats_stash
    /\ UNCHANGED <<mergeVars, engineVars, flagVars, reporterVars, dumpVars>>
    /\ UNCHANGED <<pc, pass_list, idx, transport, rejected, stdout, invoked, no_values>>

\* `self.stats_stash.lock().await.replace(stats.clone())`
Replace(stat) ==
    /\ task[stat].at = "replace"
    /\ stats_stash' = <<task[stat].stats>>
    /\ task' = [task EXCEPT ![stat].at = "clone"]
    /\ UNCHANGED queries
    /\ UNCHANGED <<mergeVars, engineVars, flagVars, reporterVars, dumpVars>>
    /\ UNCHANGED <<pc, pass_list, idx, transport, rejected, stdout, invoked, no_values>>

\* `if let Some(stats) = self.stats_stash.lock().await.clone()` and the match
\* on self.stat: the value of the call.
Clone(stat) ==
    /\ task[stat].at = "clone"
    /\ \E overflow_checks \in BOOLEAN :
          task' = [task EXCEPT
                      ![stat].at = "returned",
                      ![stat].value =
                          IF stats_stash[1] = None THEN None
                          ELSE docker_container_get_value(
                                   task[stat].reporter, stats_stash,
                                   NoReply, overflow_checks).value]
    /\ UNCHANGED <<stats_stash, queries>>
    /\ UNCHANGED <<mergeVars, engineVars, flagVars, reporterVars, dumpVars>>
    /\ UNCHANGED <<pc, pass_list, idx, transport, rejected, stdout, invoked, no_values>>

NextStash ==
    \E stat \in StashStats :
        IsNone(stat) \/ StreamNext(stat) \/ Replace(stat) \/ Clone(stat)

SpecStash == InitStash /\ [][NextStash]_vars

(***************************************************************************)
(* The two passes                                                          *)
(***************************************************************************)
\* The largest number of external sources that fail in one run.
MaxNoValue == 1

\* A bug that lets disabled sensors through.
skips_nothing(sensor) == FALSE

\* `if sensor.disabled { continue; }` of both passes
skips(sensor) == sensor.disabled

\* A bug that swallows the client's rejection: `?` left out after the publish.
publish_raw_swallow(json, has_client, accepted, message, sent, printed) ==
    IF json
    THEN [ok |-> TRUE, transport |-> sent, rejected |-> <<>>,
          stdout |-> Append(printed, [topic |-> message.topic,
                                      payload |-> message.payload,
                                      pass |-> message.pass, at |-> message.at])]
    ELSE IF has_client
    THEN IF accepted
         THEN [ok |-> TRUE, transport |-> Append(sent, message),
               rejected |-> <<>>, stdout |-> printed]
         ELSE [ok |-> TRUE, transport |-> sent, rejected |-> <<message>>,
               stdout |-> printed]
    ELSE [ok |-> TRUE, transport |-> sent, rejected |-> <<>>, stdout |-> printed]

\* A bug that tests for the client before it tests json_output.
publish_raw_client_first(json, has_client, accepted, message, sent, printed) ==
    IF has_client
    THEN IF accepted
         THEN [ok |-> TRUE, transport |-> Append(sent, message),
               rejected |-> <<>>, stdout |-> printed]
         ELSE [ok |-> FALSE, transport |-> sent, rejected |-> <<message>>,
               stdout |-> printed]
    ELSE IF json
    THEN [ok |-> TRUE, transport |-> sent, rejected |-> <<>>,
          stdout |-> Append(printed, [topic |-> message.topic,
                                      payload |-> message.payload,
                                      pass |-> message.pass, at |-> message.at])]
    ELSE [ok |-> TRUE, transport |-> sent, rejected |-> <<>>, stdout |-> printed]

\* UnraidStats::publish_raw: print in JSON mode, else publish when a client is
\* there, else nothing; `accepted` is whether the client takes the message.
\* The result keeps the message the client rejected.
publish_raw(json, has_client, accepted, message, sent, printed) ==
    IF json
    THEN [ok |-> TRUE, transport |-> sent, rejected |-> <<>>,
          stdout |-> Append(printed, [topic |-> message.topic,
                                      payload |-> message.payload,
                                      pass |-> message.pass, at |-> message.at])]
    ELSE IF has_client
    THEN IF accepted
         THEN [ok |-> TRUE, transport |-> Append(sent, message),
               rejected |-> <<>>, stdout |-> printed]
         ELSE [ok |-> FALSE, transport |-> sent, rejected |-> <<message>>,
               stdout |-> printed]
    ELSE [ok |-> TRUE, transport |-> sent, rejected |-> <<>>, stdout |-> printed]

\* A bug that publishes the state values retained.
publish_ha_state_retained(json, has_client, accepted, message, sent, printed) ==
    publish_raw(json, has_client, accepted, [message EXCEPT !.retain = TRUE],
                sent, printed)

\* UnraidStats::publish_ha_state: print in JSON mode, else publish_raw without
\* retain when a client is there, else nothing.
publish_ha_state(json, has_client, accepted, message, sent, printed) ==
    IF json
    THEN [ok |-> TRUE, transport |-> sent, rejected |-> <<>>,
          stdout |-> Append(printed, [topic |-> message.topic,
                                      payload |-> message.payload,
                                      pass |-> message.pass, at |-> message.at])]
    ELSE IF has_client
    THEN publish_raw(json, TRUE, accepted, [message EXCEPT !.retain = FALSE],
                     sent, printed)
    ELSE [ok |-> TRUE, transport |-> sent, rejected |-> <<>>, stdout |-> printed]

\* The answers of the engine in the runs of the passes.
FlowAnswers ==
    { [ok |-> FALSE, list |-> <<>>],
      [ok |-> TRUE, list |-> <<web>>],
      [ok |-> TRUE, list |-> <<web, unnamed>>] }

\* The entries of the configurations in the runs of the passes: overrides that
\* disable and a command, enabled or disabled.
FlowEntries ==
    { sensor_config_entry(wildcard_memory, {}, "B", TRUE),
      sensor_config_entry(<<"cpu", "_", "usage">>, {}, "B", TRUE),
      command_sensor_entry(<<"fan", "_", "speed">>, "A", FALSE),
      command_sensor_entry(<<"fan", "_", "speed">>, "A", TRUE) }

\* The configurations in the runs of the passes: none, or any map of those
\* entries under their keys.
FlowConfigs ==
    {None} \cup
    UNION {{Some(c) : c \in {f \in [keys -> FlowEntries] :
                                \A k \in keys : f[k].id = k}} :
           keys \in SUBSET {e.id : e \in FlowEntries}}

\* A fresh stash for each container of the listing.
fresh_stash(answer) == [cell \in 1..Len(containers(answer)) |-> None]

Init ==
    /\ json_output \in BOOLEAN
    /\ skip_discovery \in BOOLEAN
    /\ client = ~json_output    \* main: None in JSON mode, Some(&client) else
    /\ engine \in FlowAnswers
    /\ sensor_config \in FlowConfigs
    /\ pc = "publish_discovery"
    /\ pass_list = <<>>
    /\ idx = 0
    /\ stats_stash = <<>>
    /\ transport = <<>>
    /\ rejected = <<>>
    /\ stdout = <<>>
    /\ invoked = <<>>
    /\ no_values = 0
    /\ rep_source = None
    /\ rep_reply = None
    /\ rep_got = None
    /\ dump = None
    /\ reloaded = None
    /\ task = <<>>
    /\ queries = 0
    /\ built = None
    /\ self = default_sensor
    /\ prior = default_sensor
    /\ other = None
    /\ merges = 0

\* publish_discovery with skip_discovery set: Ok(()) at once.
DiscoverySkipped ==
    /\ pc = "publish_discovery"
    /\ skip_discovery
    /\ pc' = "publish_stats"
    /\ UNCHANGED <<pass_list, idx, stats_stash, transport, rejected, stdout, invoked, no_values>>
    /\ UNCHANGED <<mergeVars, engineVars, flagVars, reporterVars, dumpVars, taskVars>>

\* A bug that leaves out the test of skip_discovery in publish_discovery.
DiscoveryBeginUnskipped ==
    /\ pc = "publish_discovery"
    /\ \E keys \in Orders(command_keys(sensor_config)) :
           pass_list' = sensors(engine, sensor_config, keys).list
    /\ stats_stash' = fresh_stash(engine)
    /\ idx' = 1
    /\ pc' = "discovery"
    /\ UNCHANGED <<transport, rejected, stdout, invoked, no_values>>
    /\ UNCHANGED <<mergeVars, engineVars, flagVars, reporterVars, dumpVars, taskVars>>

\* publish_discovery builds the sensor list it iterates over.
DiscoveryBegin ==
    /\ pc = "publish_discovery"
    /\ ~skip_discovery
    /\ \E keys \in Orders(command_keys(sensor_config)) :
           pass_list' = sensors(engine, sensor_config, keys).list
    /\ stats_stash' = fresh_stash(engine)
    /\ idx' = 1
    /\ pc' = "discovery"
    /\ UNCHANGED <<transport, rejected, stdout, invoked, no_values>>
    /\ UNCHANGED <<mergeVars, engineVars, flagVars, reporterVars, dumpVars, taskVars>>

\* One turn of the loop of publish_discovery.
DiscoveryTurn ==
    /\ pc = "discovery"
    /\ idx <= Len(pass_list)
    /\ IF skips(pass_list[idx])
       THEN /\ idx' = idx + 1
            /\ UNCHANGED <<pc, transport, rejected, stdout>>
       ELSE \E accepted \in BOOLEAN :
              LET message ==
                      [topic |-> discovery_topic(pass_list[idx], discovery_prefix, node_id),
                       payload |-> disovery_config(pass_list[idx], device_name, node_id,
                                                   get_device_info),
                       retain |-> TRUE, pass |-> "discovery", at |-> idx]
                  sent == publish_raw(json_output, client, accepted, message,
                                      transport, stdout)
              IN  /\ transport' = sent.transport
                  /\ rejected' = rejected \o sent.rejected
                  /\ stdout' = sent.stdout
                  /\ idx' = IF sent.ok THEN idx + 1 ELSE idx
                  /\ pc' = IF sent.ok THEN pc ELSE "failed"
    /\ UNCHANGED <<pass_list, stats_stash, invoked, no_values>>
    /\ UNCHANGED <<mergeVars, engineVars, flagVars, reporterVars, dumpVars, taskVars>>

\* publish_discovery returns Ok(()) after the last sensor.
DiscoveryEnd ==
    /\ pc = "discovery"
    /\ idx > Len(pass_list)
    /\ pc' = "publish_stats"
    /\ UNCHANGED <<pass_list, idx, stats_stash, transport, rejected, stdout, invoked, no_values>>
    /\ UNCHANGED <<mergeVars, engineVars, flagVars, reporterVars, dumpVars, taskVars>>

\* publish_stats builds the sensor list it iterates over, with new stashes.
StatsBegin ==
    /\ pc = "publish_stats"
    /\ \E keys \in Orders(command_keys(sensor_config)) :
           pass_list' = sensors(engine, sensor_config, keys).list
    /\ stats_stash' = fresh_stash(engine)
    /\ idx' = 1
    /\ pc' = "stats"
    /\ UNCHANGED <<transport, rejected, stdout, invoked, no_values>>
    /\ UNCHANGED <<mergeVars, engineVars, flagVars, reporterVars, dumpVars, taskVars>>

\* One turn of the loop of publish_stats.  A panic of the reporter ends the
\* run.
StatsTurn ==
    /\ pc = "stats"
    /\ idx <= Len(pass_list)
    /\ IF skips(pass_list[idx]) \/ pass_list[idx].reporter = None
       THEN /\ idx' = idx + 1
            /\ UNCHANGED <<pc, transport, rejected, stdout, stats_stash, invoked,
                           no_values>>
       ELSE \E reply \in source_outcomes(pass_list[idx].reporter[1], stats_stash) :
            \E overflow_checks \in BOOLEAN :
              \E got \in {get_value(pass_list[idx].reporter[1], stats_stash, reply,
                                     overflow_checks)} :
                  /\ ~got.failed \/ no_values < MaxNoValue
                  /\ no_values' = IF got.failed THEN no_values + 1 ELSE no_values
                  /\ invoked' = Append(invoked, [at |-> idx, value |-> got.value,
                                              queried |-> got.queried])
                  /\ stats_stash' = got.stats_stash
                  /\ IF got.fault
                     THEN /\ pc' = "panicked"
                          /\ UNCHANGED <<idx, transport, rejected, stdout>>
                     ELSE IF got.value = None
                     THEN /\ idx' = idx + 1
                          /\ UNCHANGED <<pc, transport, rejected, stdout>>
                     ELSE \E accepted \in BOOLEAN :
                            LET message ==
                                    [topic |-> sensor_topic(pass_list[idx], node_id),
                                     payload |-> got.value[1],
                                     retain |-> FALSE, pass |-> "stats",
                                     at |-> idx]
                                sent == publish_ha_state(json_output, client,
                                                         accepted, message,
                                                         transport, stdout)
                            IN  /\ transport' = sent.transport
                                /\ rejected' = rejected \o sent.rejected
                                /\ stdout' = sent.stdout
                                /\ idx' = IF sent.ok THEN idx + 1 ELSE idx
                                /\ pc' = IF sent.ok THEN pc ELSE "failed"
    /\ UNCHANGED pass_list
    /\ UNCHANGED <<mergeVars, engineVars, flagVars, reporterVars, dumpVars, taskVars>>

\* publish_stats returns Ok(()) after the last sensor.
StatsEnd ==
    /\ pc = "stats"
    /\ idx > Len(pass_list)
    /\ pc' = "done"
    /\ UNCHANGED <<pass_list, idx, stats_stash, transport, rejected, stdout, invoked, no_values>>
    /\ UNCHANGED <<mergeVars, engineVars, flagVars, reporterVars, dumpVars, taskVars>>

Next ==
    \/ DiscoverySkipped
    \/ DiscoveryBegin
    \/ DiscoveryTurn
    \/ DiscoveryEnd
    \/ StatsBegin
    \/ StatsTurn
    \/ StatsEnd

Spec == Init /\ [][Next]_vars

(***************************************************************************)
(* The two passes called with or without a client, the containers          *)
(* changing between them                                                   *)
(***************************************************************************)
\* publish_discovery and publish_stats are public and take Option<&AsyncClient>:
\* a caller may hand over a client or none in either output mode.
InitRun ==
    /\ json_output \in BOOLEAN
    /\ skip_discovery \in BOOLEAN
    /\ client \in BOOLEAN
    /\ engine \in FlowAnswers
    /\ sensor_config = None
    /\ pc = "publish_discovery"
    /\ pass_list = <<>>
    /\ idx = 0
    /\ stats_stash = <<>>
    /\ transport = <<>>
    /\ rejected = <<>>
    /\ stdout = <<>>
    /\ invoked = <<>>
    /\ no_values = 0
    /\ rep_source = None
    /\ rep_reply = None
    /\ rep_got = None
    /\ dump = None
    /\ reloaded = None
    /\ task = <<>>
    /\ queries = 0
    /\ built = None
    /\ self = default_sensor
    /\ prior = default_sensor
    /\ other = None
    /\ merges = 0

\* Containers start or stop after publish_discovery returned and before
\* publish_stats asks the engine again in its own call of sensors().
ContainersChange ==
    /\ pc = "publish_stats"
    /\ engine' \in FlowAnswers \ {engine}
    /\ UNCHANGED <<sensor_config, built>>
    /\ UNCHANGED <<mergeVars, flagVars, passVars, reporterVars, dumpVars, taskVars>>

NextRun == Next \/ ContainersChange

SpecRun == InitRun /\ [][NextRun]_vars

(***************************************************************************)
(* Properties of the override engine                                       *)
(***************************************************************************)
\* The entry of the loaded configuration under `key`, when it is an override.
override_at(key) == get_override(sensor_config[1], key)

\* C2: a built-in sensor that has both a wildcard override (under the key the
\* engine derives from its id) and an exact override (under its id) ends with
\* the exact override's value in every field that both overrides set.  A set
\* field is an optional field that is present, and disabled = true.
ExactOverrideWins ==
    (built # None /\ sensor_config # None) =>
        \A i \in 1..Len(built[1].lookups) :
            LET turn == built[1].lookups[i]
                final == built[1].list[i]
                star == override_at(turn.star_id)
                exact == override_at(final.id)
            IN  (is_some(star) /\ is_some(exact)) =>
                  /\ (is_some(star[1].name) /\ is_some(exact[1].name))
                        => final.name = exact[1].name[1]
                  /\ (is_some(star[1].unit) /\ is_some(exact[1].unit))
                        => final.unit = exact[1].unit
                  /\ (is_some(star[1].device_class) /\ is_some(exact[1].device_class))
                        => final.device_class = exact[1].device_class
                  /\ (is_some(star[1].icon) /\ is_some(exact[1].icon))
                        => final.icon = exact[1].icon
                  /\ (star[1].disabled /\ exact[1].disabled)
                        => final.disabled = exact[1].disabled

\* C2 witness: the memory sensor of `web` went through a wildcard override and
\* an exact override that set the four optional fields to different values.
ExactOverrideWinsWitness ==
    /\ built # None
    /\ sensor_config # None
    /\ \E i \in 1..Len(built[1].lookups) :
        LET turn == built[1].lookups[i]
            star == override_at(turn.star_id)
            exact == override_at(turn.sensor.id)
        IN  /\ turn.star /\ turn.exact
            /\ is_some(star) /\ is_some(exact)
            /\ is_some(star[1].name) /\ is_some(exact[1].name)
            /\ star[1].name # exact[1].name
            /\ star[1].icon # exact[1].icon
            /\ built[1].list[i].name = exact[1].name[1]

\* The configuration disables the container memory sensors through the
\* wildcard key and holds an exact override with disabled = false for `web`.
ReenableScenario ==
    /\ sensor_config # None
    /\ is_some(override_at(wildcard_memory))
    /\ override_at(wildcard_memory)[1].disabled
    /\ is_some(override_at(web_memory))
    /\ ~override_at(web_memory)[1].disabled

\* The positions of the container memory sensors in the built list.
memory_sensors ==
    {i \in 1..Len(built[1].list) :
        /\ built[1].list[i].reporter # None
        /\ built[1].list[i].reporter[1].kind = "DockerContainer"
        /\ built[1].list[i].reporter[1].stat = "MemoryUsage"}

\* C3 as stated: in that scenario the memory sensor of `web` is enabled and
\* the memory sensor of every other container is disabled.
ExactOverrideReenables ==
    (built # None /\ ReenableScenario) =>
        \A i \in memory_sensors :
            built[1].list[i].disabled
                = (built[1].list[i].reporter[1].container # web)

\* C3 as amended: in that scenario the memory sensor of every container, the
\* one of `web` included, is disabled.
WildcardDisableSticks ==
    (built # None /\ ReenableScenario) =>
        \A i \in memory_sensors : built[1].list[i].disabled

\* C3 witness: the scenario with `web` and another container running.
WildcardDisableSticksWitness ==
    /\ built # None
    /\ ReenableScenario
    /\ \E i, j \in memory_sensors :
        /\ built[1].list[i].reporter[1].container = web
        /\ built[1].list[j].reporter[1].container # web
        /\ built[1].list[i].disabled

\* C7 as stated: every sensor of the built list has a non-empty id and no two
\* sensors of the list have the same id.
UniqueNonEmptyIds ==
    built # None =>
        /\ \A i \in 1..Len(built[1].list) : built[1].list[i].id # <<>>
        /\ \A i, j \in 1..Len(built[1].list) :
              i # j => built[1].list[i].id # built[1].list[j].id

\* C8: the built list is the catalog in its order, id by id and reporter by
\* reporter, followed by one sensor for each command entry and nothing else.
CatalogThenCommands ==
    built # None =>
        LET catalog == builtin_sensors(engine)
            list == built[1].list
            commands == command_keys(sensor_config)
        IN  /\ Len(list) = Len(catalog) + Cardinality(commands)
            /\ \A i \in 1..Len(catalog) :
                  /\ list[i].id = catalog[i].id
                  /\ list[i].reporter = catalog[i].reporter
            /\ \A k \in commands :
                  \E i \in (Len(catalog) + 1)..Len(list) :
                      /\ list[i].id = k
                      /\ list[i].reporter[1].kind = "Command"
                      /\ list[i].reporter[1].command = sensor_config[1][k].command

\* C8 witness: a list built under a configuration with an override that was
\* merged and two command entries.
CatalogThenCommandsWitness ==
    /\ built # None
    /\ Cardinality(command_keys(sensor_config)) = 2
    /\ Len(built[1].list) = Len(builtin_sensors(engine)) + 2
    /\ Len(engine.list) = 2

\* C9: for an id with at least one underscore the key of the wildcard lookup
\* is the first segment of the id, "_*_", and the last segment of the id,
\* whatever lies between them.
WildcardKeyFirstStarLast ==
    built # None =>
        \A i \in 1..Len(built[1].lookups) :
            LET turn == built[1].lookups[i]
                id == turn.sensor.id
                segments == split(id)
            IN  /\ Len(segments) >= 2 =>
                    turn.star_id = segments[1] \o STAR \o segments[Len(segments)]
                /\ id = <<"cpu", "_", "usage">> =>
                    turn.star_id = <<"cpu", "_", "*", "_", "usage">>
                /\ id = <<"dockercontainer", "_", "web", "_", "cpu">> =>
                    turn.star_id = <<"dockercontainer", "_", "*", "_", "cpu">>

\* C9 witness: the memory sensor of container `my_db`, an id of four segments,
\* was looked up under the wildcard key and the override found was merged.
WildcardKeyFirstStarLastWitness ==
    /\ built # None
    /\ \E i \in 1..Len(built[1].lookups) :
        /\ built[1].lookups[i].sensor.id
              = <<"dockercontainer", "_", "my", "_", "db", "_", "memory">>
        /\ built[1].lookups[i].star_id = wildcard_memory
        /\ built[1].lookups[i].star
        /\ built[1].list[i].disabled

\* C10 as stated: for an id without underscore the key of the wildcard lookup
\* is the id, "_*_", and the id again.
SingleSegmentKeyReuse ==
    built # None =>
        \A i \in 1..Len(built[1].lookups) :
            LET turn == built[1].lookups[i]
                id == turn.sensor.id
            IN  Len(split(id)) = 1 => turn.star_id = id \o STAR \o id

\* C10 as amended: for an id without underscore the key of the wildcard lookup
\* is the id followed by "_*_" and nothing else.
SingleSegmentKeyEmptyLast ==
    built # None =>
        \A i \in 1..Len(built[1].lookups) :
            LET turn == built[1].lookups[i]
                id == turn.sensor.id
            IN  Len(split(id)) = 1 => turn.star_id = id \o STAR

\* C10 witness: `uptime` was looked up under "uptime_*_" and the override
\* found there was merged into it.
SingleSegmentKeyEmptyLastWitness ==
    /\ built # None
    /\ \E i \in 1..Len(built[1].lookups) :
        /\ built[1].lookups[i].sensor.id = <<"uptime">>
        /\ built[1].lookups[i].star_id = <<"uptime", "_", "*", "_">>
        /\ built[1].lookups[i].star
        /\ built[1].list[i].name = <<"Custom B">>

(***************************************************************************)
(* Properties of Sensor::merge                                             *)
(***************************************************************************)
\* C4: a merge call never turns disabled from true to false, whatever the
\* patch, and turns it from false to true only when the patch's disabled is
\* true; so once a sensor is disabled it stays disabled through every later
\* merge call.
DisabledOneWay ==
    [][ /\ self.disabled => self'.disabled
        /\ (~self.disabled /\ self'.disabled) => other'[1].disabled ]_vars

\* C4 witness: a disabled sensor went through a merge call whose patch applies
\* to it and has disabled = false.
DisabledOneWayWitness ==
    /\ other # None
    /\ prior.disabled
    /\ other[1].id = prior.id
    /\ ~other[1].disabled
    /\ self.disabled

\* C5: a merge call with a patch of the sensor's id leaves the id, the reporter
\* and every field that is absent from the patch as they were; disabled is left
\* as it was unless the patch's disabled is true.
MergeFrame ==
    (other # None /\ other[1].id = prior.id) =>
        /\ self.id = prior.id
        /\ self.reporter = prior.reporter
        /\ other[1].name = None => self.name = prior.name
        /\ other[1].unit = None => self.unit = prior.unit
        /\ other[1].device_class = None => self.device_class = prior.device_class
        /\ other[1].icon = None => self.icon = prior.icon
        /\ ~other[1].disabled => self.disabled = prior.disabled

\* C5 witness: a patch of the sensor's id that sets the name alone changed the
\* name and left a unit, a device class and an icon that were set.
MergeFrameWitness ==
    /\ other # None
    /\ other[1].id = prior.id
    /\ is_some(other[1].name)
    /\ other[1].unit = None /\ other[1].device_class = None /\ other[1].icon = None
    /\ self.name # prior.name
    /\ is_some(self.unit) /\ is_some(self.device_class) /\ is_some(self.icon)

\* C6: a merge call with a patch whose id is neither the sensor's id nor a
\* wildcard id changes nothing.
MergeForeignIdNoOp ==
    (other # None /\ other[1].id # prior.id /\ ~contains(other[1].id, STAR)) =>
        self = prior

\* C6 witness: a patch of another sensor's id that sets every field and
\* disables was handed to merge.
MergeForeignIdNoOpWitness ==
    /\ other # None
    /\ other[1].id # prior.id
    /\ ~contains(other[1].id, STAR)
    /\ is_some(other[1].name) /\ is_some(other[1].unit)
    /\ is_some(other[1].device_class) /\ is_some(other[1].icon)
    /\ other[1].disabled
    /\ self = prior

(***************************************************************************)
(* Properties of the passes                                                *)
(***************************************************************************)
\* C1: no discovery document and no state value is handed to the client or
\* printed for a sensor of the list whose disabled flag is true, and the
\* reporter of such a sensor is never asked for a value.  A message names the
\* pass that made it and the position of its sensor in the list of that pass.
DisabledNeverPublished ==
    LET pass == IF pc \in {"discovery", "publish_stats"} THEN "discovery" ELSE "stats"
    IN  /\ \A i \in 1..Len(transport) :
              transport[i].pass = pass => ~pass_list[transport[i].at].disabled
        /\ \A i \in 1..Len(stdout) :
              stdout[i].pass = pass => ~pass_list[stdout[i].at].disabled
        /\ \A i \in 1..Len(invoked) : ~pass_list[invoked[i].at].disabled

\* A run that ended with both passes over a list holding a disabled sensor
\* with a reporter, with documents and values published for sensors after it.
DisabledNeverPublishedWitness ==
    /\ pc = "done"
    /\ \E i \in 1..Len(pass_list) :
          /\ pass_list[i].disabled
          /\ pass_list[i].reporter # None
          /\ \E m \in 1..Len(transport) :
                transport[m].pass = "discovery" /\ transport[m].at > i
          /\ \E m \in 1..Len(transport) :
                transport[m].pass = "stats" /\ transport[m].at > i
          /\ \E m \in 1..Len(invoked) : invoked[m].at > i

\* The positions of the sensors of the list a pass does not skip, in order.
RECURSIVE enabled_from(_)
enabled_from(i) ==
    IF i > Len(pass_list) THEN <<>>
    ELSE IF pass_list[i].disabled THEN enabled_from(i + 1)
    ELSE <<i>> \o enabled_from(i + 1)

\* The messages of a pass among those emitted: the ones the client accepted,
\* or in JSON mode the records printed.
emitted(pass) ==
    SelectSeq(IF json_output THEN stdout ELSE transport, LAMBDA m : m.pass = pass)

\* The get_value calls of the value pass that yielded a value, in order.
yielded == SelectSeq(invoked, LAMBDA call : call.value # None)

\* C11: when the value pass ends with success, the reporter of every enabled
\* sensor with a reporter was asked once, in list order, and the messages
\* emitted are, in that order, one for each call that yielded a value: on the
\* state topic of the sensor, carrying the value, with retain = false when
\* handed to the client.  A call that yielded no value emitted nothing and did
\* not end the pass.
NoValueSkippedSilently ==
    pc = "done" =>
        LET asked == SelectSeq(enabled_from(1),
                               LAMBDA i : pass_list[i].reporter # None)
            out == emitted("stats")
        IN  /\ rejected = <<>>
            /\ Len(invoked) = Len(asked)
            /\ \A k \in 1..Len(asked) : invoked[k].at = asked[k]
            /\ Len(out) = Len(yielded)
            /\ \A k \in 1..Len(out) :
                  /\ out[k].at = yielded[k].at
                  /\ out[k].payload = yielded[k].value[1]
                  /\ out[k].topic = <<"unraid", "_", "unraid", "/", "sensor", "/">>
                                        \o pass_list[out[k].at].id
                                        \o <<"/", "state">>
                  /\ ~json_output => out[k].retain = FALSE

\* A value pass that ended with success although a reporter yielded no value
\* for a sensor that has enabled sensors with values after it.
NoValueSkippedSilentlyWitness ==
    /\ pc = "done"
    /\ ~json_output
    /\ \E k \in 1..Len(invoked) :
          /\ invoked[k].value = None
          /\ \E m \in 1..Len(transport) :
                transport[m].pass = "stats" /\ transport[m].at > invoked[k].at

\* C12: when the discovery pass, not skipped, ends with success, the messages
\* emitted are one for each enabled sensor of the list, in list order, each on
\* the topic {discovery_prefix}/sensor/{node_id}/{id}/config and, when handed
\* to the client, with retain = true.
DiscoveryOncePerEnabledSensor ==
    (pc = "publish_stats" /\ ~skip_discovery) =>
        LET want == enabled_from(1)
            out == emitted("discovery")
        IN  /\ Len(out) = Len(want)
            /\ \A k \in 1..Len(out) :
                  /\ out[k].at = want[k]
                  /\ out[k].topic = <<"homeassistant", "/", "sensor", "/",
                                      "unraid", "_", "unraid", "/">>
                                        \o pass_list[want[k]].id
                                        \o <<"/", "config">>
                  /\ ~json_output => out[k].retain = TRUE

\* A discovery pass that ended with success over a list with a disabled sensor
\* between enabled ones, its documents handed to the client.
DiscoveryOncePerEnabledSensorWitness ==
    /\ pc = "publish_stats"
    /\ ~skip_discovery
    /\ ~json_output
    /\ Len(transport) >= 2
    /\ \E i \in 2..(Len(pass_list) - 1) : pass_list[i].disabled

\* C13: a publish the client rejects ends the run in that step with the
\* failure: the rejected message is not among the published ones and is the
\* only one rejected (no retry), nothing happens after the failure (no later
\* sensor is published), and the messages already published stay as they are.
RejectionEndsPass ==
    [][ /\ rejected' # rejected =>
              /\ pc' = "failed"
              /\ Len(rejected') = 1
              /\ transport' = transport
              /\ stdout' = stdout
              /\ idx' = idx
        /\ pc = "failed" => UNCHANGED vars
        /\ Len(transport') >= Len(transport)
        /\ SubSeq(transport', 1, Len(transport)) = transport ]_vars

\* A value pass the client's rejection ended, with messages published before
\* it and enabled sensors left after it.
RejectionEndsPassWitness ==
    /\ pc = "failed"
    /\ Len(rejected) = 1
    /\ rejected[1].pass = "stats"
    /\ transport # <<>>
    /\ \E i \in (idx + 1)..Len(pass_list) : ~pass_list[i].disabled

\* C21: with skip_discovery set no discovery message is handed to the client
\* or printed, in either output mode; publish_discovery returns without having
\* built a sensor list; and the value pass that ends with success has emitted
\* one state message for each value a reporter yielded.
SkipDiscoverySilences ==
    skip_discovery =>
        /\ emitted("discovery") = <<>>
        /\ \A i \in 1..Len(transport) : transport[i].pass # "discovery"
        /\ \A i \in 1..Len(stdout) : stdout[i].pass # "discovery"
        /\ \A i \in 1..Len(rejected) : rejected[i].pass # "discovery"
        /\ pc # "discovery"
        /\ pc = "publish_stats" => pass_list = <<>> /\ idx = 0
        /\ pc = "done" => /\ Len(emitted("stats")) = Len(yielded)
                          /\ \A k \in 1..Len(yielded) :
                                emitted("stats")[k].at = yielded[k].at

\* A run in JSON mode with skip_discovery set that ended with state values
\* printed.
SkipDiscoverySilencesWitness ==
    /\ skip_discovery
    /\ json_output
    /\ pc = "done"
    /\ Len(stdout) >= 2
    /\ \A i \in 1..Len(stdout) : stdout[i].pass = "stats"

\* The get_value calls of the value pass that opened a stats query for the
\* container of stash cell `cell`.
stats_queries(cell) ==
    {k \in 1..Len(invoked) :
        /\ invoked[k].queried
        /\ pass_list[invoked[k].at].reporter[1].stats_stash = cell}

\* C23 as stated: in one value pass at most one stats query is opened for
\* each running container, whatever the engine answers.
OneQueryPerContainer ==
    \A cell \in 1..Len(stats_stash) : Cardinality(stats_queries(cell)) <= 1

\* C22: in JSON mode nothing is handed to the client and no publish is
\* rejected, with or without a client: every discovery document and every
\* state value is printed instead, as a record of topic and payload.  With
\* JSON output off and no client nothing is published or printed, and the
\* pass does not fail.
JsonNeverPublishes ==
    /\ json_output =>
          /\ transport = <<>>
          /\ rejected = <<>>
          /\ pc \notin {"failed", "panicked"}
          /\ \A i \in 1..Len(stdout) :
                {"topic", "payload"} \subseteq DOMAIN stdout[i]
          /\ (pc = "publish_stats" /\ pass_list # <<>>) =>
                Len(stdout) = Len(enabled_from(1))
          /\ pc = "done" =>
                Len(SelectSeq(stdout, LAMBDA r : r.pass = "stats")) = Len(yielded)
    /\ (~json_output /\ ~client) =>
          /\ transport = <<>>
          /\ rejected = <<>>
          /\ stdout = <<>>
          /\ pc \notin {"failed", "panicked"}

\* A run in JSON mode that was handed a client and ended with discovery
\* documents and state values printed.
JsonNeverPublishesWitness ==
    /\ json_output
    /\ client
    /\ pc = "done"
    /\ \E i \in 1..Len(stdout) : stdout[i].pass = "discovery"
    /\ \E i \in 1..Len(stdout) : stdout[i].pass = "stats"

\* The sensor id in a state topic {node_id}/sensor/{id}/state.
state_topic_id(topic) == SubSeq(topic, Len(node_id) + 4, Len(topic) - 2)

\* The sensor id in a discovery topic {prefix}/sensor/{node_id}/{id}/config.
discovery_topic_id(topic) ==
    SubSeq(topic, Len(discovery_prefix) + Len(node_id) + 5, Len(topic) - 2)

\* C26 as stated: in MQTT mode with discovery not skipped, every state
\* message the client accepted comes after a discovery message for the same
\* sensor id, whatever the containers do between the two passes.
DiscoveryBeforeState ==
    (~json_output /\ client /\ ~skip_discovery) =>
        \A i \in 1..Len(transport) :
            transport[i].pass = "stats" =>
                \E j \in 1..(i - 1) :
                    /\ transport[j].pass = "discovery"
                    /\ discovery_topic_id(transport[j].topic)
                          = state_topic_id(transport[i].topic)

(***************************************************************************)
(* Properties of the reporters                                             *)
(***************************************************************************)
\* The outputs of the model the transform of a command reporter turns into a
\* value; it turns every other one into no value.
Parsable(transform) ==
    IF transform \in {"disk_usage_percent", "disk_total", "disk_available"}
    THEN {df_output}
    ELSE IF transform = "cpu_temp" THEN {sensors_output}
    ELSE IF transform = "array_status" THEN {status_output}
    ELSE IF transform = "ParseFloat" THEN {number_output}
    ELSE IF transform = "ParseInteger" THEN {}
    ELSE IF transform = "ExtractNumber" THEN Outputs \ {garbage_output, <<>>}
    ELSE Outputs

\* C14: a get_value call whose external source fails yields no value and does
\* not fault: a command that does not start or prints what its transform does
\* not accept, a listing query that fails, a stats query that fails.
SourceFailureGivesNoValue ==
    rep_got # None =>
        LET reporter == rep_source[1]
            reply == rep_reply[1]
            failure ==
                \/ /\ reporter.kind = "Command"
                   /\ \/ ~reply.started
                      \/ reply.stdout \notin Parsable(reporter.transform)
                \/ reporter.kind = "Docker" /\ ~reply.listed
                \/ /\ reporter.kind = "DockerContainer"
                   /\ rep_got[1].queried
                   /\ reply.sample = None
        IN  failure => rep_got[1].value = None /\ ~rep_got[1].fault

\* A command that started and printed what its number transform does not
\* accept, and a call that yielded no value for it.
SourceFailureGivesNoValueWitness ==
    /\ rep_got # None
    /\ rep_source[1].kind = "Command"
    /\ rep_source[1].transform = "ParseFloat"
    /\ rep_reply[1].started
    /\ rep_reply[1].stdout = garbage_output
    /\ rep_got[1].value = None

\* C15 as stated: a get_value call of a container reporter never faults,
\* whatever fields the summary and the sample lack.
ContainerGetValueNeverFaults ==
    (rep_got # None /\ rep_source[1].kind = "DockerContainer")
        => ~rep_got[1].fault

\* The counters of the sample calculate_cpu_percent read in the call, absent
\* ones as 0.
counters ==
    LET stats == stats_stash[1][1]
    IN  [cpu |-> total_usage_or_default(stats.cpu_stats),
         precpu |-> total_usage_or_default(stats.precpu_stats),
         system |-> system_cpu_usage_or_default(stats.cpu_stats),
         presystem |-> system_cpu_usage_or_default(stats.precpu_stats),
         online_cpus |-> online_cpus_or_default(stats.cpu_stats)]

\* C16 as stated: with both deltas positive the percentage is
\* (cpu_delta / system_delta) * online_cpus * 100; with cpu_delta = 0 or
\* system_delta <= 0 it is 0.0; each delta is the current counter minus the
\* previous one.
CpuPercentFormula ==
    (rep_got # None /\ rep_got[1].cpu_percent # None) =>
        LET c == counters
            percent == rep_got[1].cpu_percent[1]
        IN  /\ (c.cpu > c.precpu /\ c.system > c.presystem) =>
                  /\ ~percent.fault
                  /\ percent.num * (c.system - c.presystem)
                        = (c.cpu - c.precpu) * c.online_cpus * 100 * percent.den
            /\ (c.cpu = c.precpu \/ c.system <= c.presystem) =>
                  /\ ~percent.fault
                  /\ percent.num = 0

\* C17 as stated: with a current counter below the previous one the
\* percentage is 0.0, without a fault.
CounterResetGivesZero ==
    (rep_got # None /\ rep_got[1].cpu_percent # None) =>
        LET c == counters
            percent == rep_got[1].cpu_percent[1]
        IN  (c.cpu < c.precpu \/ c.system < c.presystem) =>
                ~percent.fault /\ percent.num = 0

\* What the three disk sensors report for the usage line of the model.
disk_values ==
    [disk_usage_percent |-> <<"4", "0">>,
     disk_total |-> <<"1", "0", "0", "M">>,
     disk_available |-> <<"6", "0", "M">>]

\* A get_value call of a disk sensor whose `df` started.
disk_call ==
    /\ rep_got # None
    /\ rep_source[1].kind = "Command"
    /\ rep_source[1].transform \in DOMAIN disk_values
    /\ rep_reply[1].started

\* C18 as stated: parse_disk_usage applied to the usage line gives total 100M,
\* available 60M and usage 40, which the disk sensors report; applied to a
\* line with fewer than five fields, or with no number in the fifth, it gives
\* no value.
UsageLineParses ==
    disk_call =>
        /\ rep_reply[1].stdout = usage_line =>
              rep_got[1].value = Some(disk_values[rep_source[1].transform])
        /\ rep_reply[1].stdout \in {df_output_short, df_output_no_use} =>
              rep_got[1].value = None

\* C18 amended: parse_disk_usage reads the second line of its input.  Applied
\* to a `df` output whose second line is the usage line it gives total 100M,
\* available 60M and usage 40; with fewer than five fields in the second line,
\* or no number in its fifth field, or no second line, it gives no value.
SecondLineParses ==
    disk_call =>
        /\ rep_reply[1].stdout = df_output =>
              rep_got[1].value = Some(disk_values[rep_source[1].transform])
        /\ rep_reply[1].stdout
                \in {df_output_short, df_output_no_use, usage_line, <<>>} =>
              rep_got[1].value = None

\* The disk usage sensor reporting 40 for the `df` output of the model.
SecondLineParsesWitness ==
    /\ disk_call
    /\ rep_source[1].transform = "disk_usage_percent"
    /\ rep_reply[1].stdout = df_output
    /\ rep_got[1].value = Some(<<"4", "0">>)

\* C25 as stated: the status reporter of a container yields the status of the
\* container summary whenever the summary has one, with or without a stats
\* sample, and yields no value only when the summary has no status.  The
\* calls that panic on an absent id are left aside.
StatusPassthrough ==
    (/\ rep_got # None
     /\ rep_source[1].kind = "DockerContainer"
     /\ rep_source[1].stat = "Status"
     /\ ~rep_got[1].fault) =>
        rep_got[1].value = rep_source[1].container.status

\* C24 as stated: when the CPU and the memory reporter of one container run
\* get_value concurrently, at most one stats query is opened for the
\* container in every interleaving.  Only the runs in which every query
\* opened so far gave a sample are looked at (a query with no sample is the
\* case of C23).
OneQueryWhenConcurrent ==
    Cardinality({stat \in DOMAIN task : task[stat].stats # None}) = queries =>
        queries <= 1

(***************************************************************************)
(* Properties of merge and of the dump                                     *)
(***************************************************************************)
\* C19: merge is idempotent: a merge call with the patch of the call before it
\* leaves the sensor exactly as that call left it.
MergeIdempotent ==
    [][(other # None /\ other' = other) => self' = self]_vars

\* C19 witness: a patch changed a sensor of the catalog and the call after it,
\* with the same patch, left the sensor as it was.
MergeIdempotentWitness ==
    /\ merges = 2
    /\ other # None
    /\ prior = self
    /\ \E s \in MergeSensors : s # self /\ merge(s, other[1]) = self

\* The dumped fields of the sensors of a list, in list order.
dumped_fields(sensor_list) ==
    [i \in 1..Len(sensor_list) |->
        [id |-> sensor_list[i].id,
         name |-> sensor_list[i].name,
         unit |-> sensor_list[i].unit,
         device_class |-> sensor_list[i].device_class,
         icon |-> sensor_list[i].icon,
         disabled |-> sensor_list[i].disabled]]

\* The sensors of a list as a set of their dumped fields.
field_set(sensor_list) ==
    {dumped_fields(sensor_list)[i] : i \in 1..Len(sensor_list)}

\* C20 as stated: the list built with the dump of a list as the configuration,
\* over the same catalog, has the ids of the list that was dumped and, for each
\* id, its name, unit, device_class, icon and disabled.
DumpRoundTrip ==
    reloaded # None =>
        field_set(reloaded[1].list) = field_set(built[1].list)

====
